---- MODULE Spec2Model ----
(***************************************************************************)
(* A model of the jsonprez slide codec:                                    *)
(*   - the text-structure codec (extractTextAdvanced decodes a flat        *)
(*     marker/run stream, buildTextContentRequests encodes runs into       *)
(*     index-addressed batch requests),                                    *)
(*   - the affine-transform codec (composeTransforms, the decomposition in *)
(*     extractElementAdvanced, buildTransform),                            *)
(*   - the theme-color resolver and its module-level caches.               *)
(*   - request generation (buildAllRequests and the element builders),     *)
(*   - the control flow of slide extraction (extractSlideAdvanced).        *)
(* Each subsystem has its own specification over the shared variables.     *)
(***************************************************************************)
EXTENDS Integers, Sequences, FiniteSets, TLC

VARIABLES
    pc,            \* position of the text pipeline: "idle", "ready", "built"
    origin,        \* where element came from: "none", "extract" or "json"
    textElements,  \* the flat marker/run stream handed to extractTextAdvanced
    textData,      \* what extractTextAdvanced returned: plainText and runs
    element,       \* the canonical JSON element built by extractShapeAdvanced
    requests,      \* the batch requests built by buildTextContentRequests
    tfOp,          \* the last transform operation: "none", "extract", "compose", "roundtrip"
    tfIn,          \* its inputs
    tfOut,         \* its results
    DEFAULT_THEME_COLORS,             \* the module-level default palette object
    activeThemeColors,                \* _activeThemeColors
    activeIsDefault,                  \* _activeThemeColors refers to the DEFAULT_THEME_COLORS object itself
    themeColorMap,                    \* _themeColorMap
    resolvedThemeColorMapsPerSlide,   \* _resolvedThemeColorMapsPerSlide
    resolvedFillColors,               \* _resolvedFillColors, keyed by the slide of the shape
    presentation,                     \* the presentation of the last extraction
    json,                             \* the slides of the last extraction's result
    genPc,         \* position of the generator: "idle", "loaded", "generated"
    deck,          \* the JSON document handed to buildAllRequests
    batch,         \* what buildAllRequests returned
    styleRuns,     \* the runs handed to inheritMissingRunStyles
    styledRuns,    \* the runs after inheritMissingRunStyles
    page,          \* the slide handed to extractSlideAdvanced
    slideData,     \* the outcome of extractSlideAdvanced
    placeholderStyles,   \* _placeholderStyles
    extractionRawMode,   \* _extractionRawMode
    styleDoc,      \* the presentation, slide and shape of the last style extraction
    styleOut,      \* the style properties extractShapeAdvanced gave the shape
    backgroundIndex,     \* _backgroundIndex
    bgDoc,         \* the presentation and slide of the last background resolution
    bgOut,         \* what resolveSlideBackground returned for the slide
    runPc,         \* position of generatePresentation: "idle", "reset", "phase1", "phase2", "done", "failed"
    runCount,      \* the number of generation runs started
    runJson,       \* the JSON document of the current run
    runRequests,   \* the request list held by executeBatchWithRetryV2
    attempts,      \* attempts of executeBatchWithRetryV2
    accepted,      \* the batch API accepted the list runRequests
    phase2Queue,   \* _phase2Queue
    foundQueue,    \* the queue as the current run found it
    inserted,      \* the queue items the second phase of the current run executed
    removedIds,    \* the object ids of the createImage requests the current run removed
    postPc,        \* position of each doPost invocation
    postAction,    \* request.action of each doPost invocation
    lockResult,    \* what lock.tryLock returned to each doPost invocation
    lockHolder,    \* the invocation that holds the script lock, NoHolder when it is free
    releasedUnheld \* the invocations that called releaseLock without holding the lock

textVars == <<pc, origin, textElements, textData, element, requests>>

tfVars == <<tfOp, tfIn, tfOut>>

colorVars ==
    <<DEFAULT_THEME_COLORS, activeThemeColors, activeIsDefault, themeColorMap,
      resolvedThemeColorMapsPerSlide, resolvedFillColors, presentation, json>>

genVars == <<genPc, deck, batch>>

inheritVars == <<styleRuns, styledRuns>>

slideVars == <<page, slideData>>

styleVars == <<placeholderStyles, extractionRawMode, styleDoc, styleOut>>

bgVars == <<backgroundIndex, bgDoc, bgOut>>

runVars ==
    <<runPc, runCount, runJson, runRequests, attempts, accepted, phase2Queue,
      foundQueue, inserted, removedIds>>

lockVars == <<postPc, postAction, lockResult, lockHolder, releasedUnheld>>

laterVars == <<styleVars, bgVars, runVars, lockVars>>

vars ==
    <<pc, origin, textElements, textData, element, requests, tfOp, tfIn, tfOut,
      DEFAULT_THEME_COLORS, activeThemeColors, activeIsDefault, themeColorMap,
      resolvedThemeColorMapsPerSlide, resolvedFillColors, presentation, json,
      genPc, deck, batch, styleRuns, styledRuns, page, slideData,
      placeholderStyles, extractionRawMode, styleDoc, styleOut,
      backgroundIndex, bgDoc, bgOut,
      runPc, runCount, runJson, runRequests, attempts, accepted, phase2Queue,
      foundQueue, inserted, removedIds,
      postPc, postAction, lockResult, lockHolder, releasedUnheld>>

(***************************************************************************)
(* Bounds of the model.                                                    *)
(***************************************************************************)
MaxElems == 4   \* longest marker/run stream

MaxJsonRuns == 3   \* longest textRuns list of a hand-written JSON element

MaxDepth == 2   \* deepest nesting of groups around an extracted element

MaxSlides == 2   \* most slides of a presentation

(***************************************************************************)
(* Values.  Text is a sequence of characters; NL is the newline.           *)
(* A number that JavaScript leaves undefined is UndefNum; a font size of 0 *)
(* is never produced by the extractor (a falsy magnitude reads undefined), *)
(* so 0 stands for an undefined font size.                                 *)
(***************************************************************************)
NL == "\n"

UndefNum == -1

DefaultLineSpacing == 100

DefaultsFontSize == 16

ShapeFontSizeDefault == 12

NoBullet == [isNull |-> TRUE, listId |-> "", glyph |-> ""]

NullPStyle == [isNull |-> TRUE, align |-> "", indentStart |-> UndefNum, lineSpacing |-> UndefNum]

\* The paragraph style given to runs that no marker precedes: { align: 'left' }.
DefaultPStyle == [isNull |-> FALSE, align |-> "left", indentStart |-> UndefNum, lineSpacing |-> UndefNum]

(***************************************************************************)
(* The inputs: paragraph markers and text runs as the reading service      *)
(* returns them.  A marker carries a style (alignment, indentStart in PT)  *)
(* and possibly a bullet; a run carries its content and a font size.       *)
(***************************************************************************)
Markers ==
    { [kind |-> "marker", alignment |-> "START",  indentStart |-> UndefNum, bullet |-> NoBullet, content |-> <<>>, fontSize |-> 0],
      [kind |-> "marker", alignment |-> "CENTER", indentStart |-> UndefNum, bullet |-> NoBullet, content |-> <<>>, fontSize |-> 0],
      [kind |-> "marker", alignment |-> "",       indentStart |-> 36,
       bullet |-> [isNull |-> FALSE, listId |-> "L1", glyph |-> "*"], content |-> <<>>, fontSize |-> 0] }

RunContents == { <<>>, <<"a">>, <<"a", NL>>, <<NL>> }

TextRuns ==
    { [kind |-> "run", alignment |-> "", indentStart |-> UndefNum, bullet |-> NoBullet, content |-> c, fontSize |-> f] :
        c \in RunContents, f \in {0, 12} }

TextElems == Markers \cup TextRuns

Streams == UNION { [1..n -> TextElems] : n \in 0..MaxElems }

(***************************************************************************)
(* Small helpers on sequences.                                             *)
(***************************************************************************)
EndsWithNL(t) == Len(t) > 0 /\ t[Len(t)] = NL

DropLast(t) == SubSeq(t, 1, Len(t) - 1)

RECURSIVE JoinTexts(_)
JoinTexts(rs) == IF rs = <<>> THEN <<>> ELSE rs[1].text \o JoinTexts(Tail(rs))

(***************************************************************************)
(* extractTextAdvanced                                                     *)
(***************************************************************************)
mapAlignmentAdvanced(alignment) ==
    CASE alignment = "START" -> "left"
      [] alignment = "CENTER" -> "center"
      [] alignment = "END" -> "right"
      [] alignment = "JUSTIFIED" -> "justify"
      [] OTHER -> "left"

\* buildParagraphData: the paragraph style and bullet data of a marker.
buildParagraphData(marker) ==
    [pStyle |-> [isNull |-> FALSE,
                 align |-> mapAlignmentAdvanced(marker.alignment),
                 indentStart |-> marker.indentStart,
                 lineSpacing |-> DefaultLineSpacing],
     bulletData |-> marker.bullet]

\* applyMarkerToRuns: the runs at the positions idxs receive the marker's data.
applyMarkerToRuns(marker, runs, idxs) ==
    IF idxs = {} THEN runs
    ELSE [k \in DOMAIN runs |->
            IF k \in idxs
            THEN [runs[k] EXCEPT !.paragraphStyle = buildParagraphData(marker).pStyle,
                                 !.bullet = buildParagraphData(marker).bulletData]
            ELSE runs[k]]

applyDefaultToRuns(runs, idxs) ==
    [k \in DOMAIN runs |->
        IF k \in idxs
        THEN [runs[k] EXCEPT !.paragraphStyle = DefaultPStyle, !.bullet = NoBullet]
        ELSE runs[k]]

\* The flush done when a marker arrives and at the end of the stream.
flushParagraph(st) ==
    IF st.cur = {} THEN st.runs
    ELSE IF st.hasPending THEN applyMarkerToRuns(st.pending, st.runs, st.cur)
    ELSE applyDefaultToRuns(st.runs, st.cur)

\* A decoder that reads a marker as describing the paragraph before it.
decodeStepMarkerAfter(st, elem) ==
    IF elem.kind = "marker"
    THEN [st EXCEPT !.runs = applyMarkerToRuns(elem, st.runs, st.cur),
                    !.pending = elem, !.hasPending = TRUE, !.cur = {}]
    ELSE IF Len(elem.content) = 0 THEN st
    ELSE [st EXCEPT !.plainText = st.plainText \o elem.content,
                    !.runs = Append(st.runs,
                                [text |-> elem.content, fontSize |-> elem.fontSize,
                                 paragraphStyle |-> NullPStyle, bullet |-> NoBullet]),
                    !.cur = st.cur \cup {Len(st.runs) + 1}]

\* One iteration of the loop over textElements.
decodeStep(st, elem) ==
    IF elem.kind = "marker"
    THEN [st EXCEPT !.runs = flushParagraph(st),
                    !.pending = elem, !.hasPending = TRUE, !.cur = {}]
    ELSE IF Len(elem.content) = 0 THEN st
    ELSE [st EXCEPT !.plainText = st.plainText \o elem.content,
                    !.runs = Append(st.runs,
                                [text |-> elem.content, fontSize |-> elem.fontSize,
                                 paragraphStyle |-> NullPStyle, bullet |-> NoBullet]),
                    !.cur = st.cur \cup {Len(st.runs) + 1}]

RECURSIVE decodeLoop(_, _, _)
decodeLoop(elems, i, st) ==
    IF i > Len(elems) THEN st
    ELSE decodeLoop(elems, i + 1, decodeStep(st, elems[i]))

\* Cleanup of the trailing newline of the last run.
cleanupTrailing(runs) ==
    IF runs = <<>> THEN runs
    ELSE LET n == Len(runs) IN
         IF EndsWithNL(runs[n].text)
         THEN IF Len(runs[n].text) = 1 /\ n > 1
              THEN DropLast(runs)
              ELSE [runs EXCEPT ![n].text = DropLast(runs[n].text)]
         ELSE runs

RECURSIVE inheritForward(_, _)
inheritForward(runs, i) ==
    IF i > Len(runs) THEN runs
    ELSE inheritForward(
            IF runs[i].fontSize = 0 /\ runs[i - 1].fontSize # 0
            THEN [runs EXCEPT ![i].fontSize = runs[i - 1].fontSize]
            ELSE runs, i + 1)

RECURSIVE inheritBackward(_, _)
inheritBackward(runs, i) ==
    IF i < 1 THEN runs
    ELSE inheritBackward(
            IF runs[i].fontSize = 0 /\ runs[i + 1].fontSize # 0
            THEN [runs EXCEPT ![i].fontSize = runs[i + 1].fontSize]
            ELSE runs, i - 1)

\* The two passes in the other order: backward, then forward.
inheritBackwardThenForward(runs) ==
    IF Len(runs) = 0 THEN runs
    ELSE inheritForward(inheritBackward(runs, Len(runs) - 1), 2)

inheritMissingRunStyles(runs) ==
    IF Len(runs) = 0 THEN runs
    ELSE inheritBackward(inheritForward(runs, 2), Len(runs) - 1)

extractTextAdvanced(elems) ==
    LET st0 == [runs |-> <<>>, plainText |-> <<>>, cur |-> {},
                pending |-> CHOOSE m \in Markers : TRUE, hasPending |-> FALSE]
        st1 == decodeLoop(elems, 1, st0)
        flushed == flushParagraph(st1)
        cleaned == cleanupTrailing(flushed)
    IN  [plainText |-> IF EndsWithNL(st1.plainText) THEN DropLast(st1.plainText)
                       ELSE st1.plainText,
         runs |-> inheritMissingRunStyles(cleaned)]

(***************************************************************************)
(* extractShapeAdvanced, the part that builds the text of the element.     *)
(* The shape has no placeholder, so resolveInheritedProperty finds         *)
(* nothing and the hardcoded defaults apply.                               *)
(***************************************************************************)
NoElement == [text |-> <<>>, textRuns |-> <<>>, fontSize |-> 0, align |-> ""]

extractShapeAdvanced(elems, isTextBox) ==
    LET td == extractTextAdvanced(elems)
        firstRunFontSize == IF td.runs = <<>> THEN 0 ELSE td.runs[1].fontSize
    IN  IF Len(td.plainText) = 0 THEN NoElement
        ELSE [text |-> td.plainText,
              textRuns |-> IF Len(td.runs) > 1 THEN td.runs ELSE <<>>,
              fontSize |-> IF isTextBox
                           THEN (IF firstRunFontSize # 0 THEN firstRunFontSize
                                 ELSE ShapeFontSizeDefault)
                           ELSE firstRunFontSize,
              align |-> IF isTextBox /\ td.runs # <<>> /\ ~td.runs[1].paragraphStyle.isNull
                        THEN (IF td.runs[1].paragraphStyle.align # ""
                              THEN td.runs[1].paragraphStyle.align ELSE "left")
                        ELSE ""]

(***************************************************************************)
(* Hand-written JSON elements, which generation accepts as well.           *)
(***************************************************************************)
BulletL1 == [isNull |-> FALSE, listId |-> "L1", glyph |-> ""]

EmptyBullet == [isNull |-> FALSE, listId |-> "", glyph |-> ""]

IndentPStyle == [isNull |-> FALSE, align |-> "center", indentStart |-> 18, lineSpacing |-> 100]

JsonRuns ==
    { [text |-> <<"a">>,     fontSize |-> 12, paragraphStyle |-> DefaultPStyle, bullet |-> NoBullet],
      [text |-> <<"a", NL>>, fontSize |-> 0,  paragraphStyle |-> IndentPStyle,  bullet |-> BulletL1],
      [text |-> <<"a", NL>>, fontSize |-> 12, paragraphStyle |-> NullPStyle,    bullet |-> NoBullet],
      [text |-> <<>>,        fontSize |-> 12, paragraphStyle |-> DefaultPStyle, bullet |-> BulletL1],
      [text |-> <<"a">>,     fontSize |-> 0,  paragraphStyle |-> NullPStyle,    bullet |-> EmptyBullet],
      [text |-> <<NL>>,      fontSize |-> 0,  paragraphStyle |-> DefaultPStyle, bullet |-> BulletL1] }

JsonElements ==
    { [text |-> t, textRuns |-> rs, fontSize |-> f, align |-> a] :
        t \in { <<>>, <<"a", NL, "a">> },
        rs \in UNION { [1..n -> JsonRuns] : n \in 0..MaxJsonRuns },
        f \in {0, 20},
        a \in {"", "center"} }

(***************************************************************************)
(* buildTextContentRequests                                                *)
(***************************************************************************)
NoText == <<>>

Req(op, rangeType, s, e, text, fontSize, alignment, indentStart, lineSpacing) ==
    [op |-> op, rangeType |-> rangeType, startIndex |-> s, endIndex |-> e, text |-> text,
     fontSize |-> fontSize, alignment |-> alignment, indentStart |-> indentStart,
     lineSpacing |-> lineSpacing]

RangeReq(op, s, e) == Req(op, "FIXED_RANGE", s, e, NoText, 0, "", UndefNum, UndefNum)

\* Characters removed by the cleaning regular expression; none of the model's
\* alphabet ("a", newline) is among them.
IsControlChar(c) == c \in {"\t", "\f"}

cleanText(t) == SelectSeq(t, LAMBDA c : ~IsControlChar(c))

alignMap(a) ==
    CASE a = "left" -> "START"
      [] a = "center" -> "CENTER"
      [] a = "right" -> "END"
      [] a = "justify" -> "JUSTIFIED"
      [] OTHER -> "START"

runFontSize(run, el) ==
    IF run.fontSize # 0 THEN run.fontSize
    ELSE IF el.fontSize # 0 THEN el.fontSize ELSE DefaultsFontSize

hasValidBullet(run) == ~run.bullet.isNull /\ (run.bullet.listId # "" \/ run.bullet.glyph # "")

isParagraphStart(runs, i) == i = 1 \/ EndsWithNL(runs[i - 1].text)

\* An iteration that styles every run from the start of the text.
encodeStepFromZero(el, i, acc) ==
    LET run == el.textRuns[i]
        e == acc.currentIndex + Len(run.text)
    IN  IF Len(run.text) = 0 THEN acc
        ELSE [acc EXCEPT
                !.styles = Append(acc.styles,
                    Req("updateTextStyle", "FIXED_RANGE", 0, e, NoText, runFontSize(run, el),
                        "", UndefNum, UndefNum)),
                !.currentIndex = e]

\* One iteration of the loop over element.textRuns.
encodeStep(el, i, acc) ==
    LET run == el.textRuns[i]
        runLength == Len(run.text)
        s == acc.currentIndex
        e == acc.currentIndex + runLength
        ps == run.paragraphStyle
        start == isParagraphStart(el.textRuns, i)
        hasPFields == ~ps.isNull /\ (ps.align # "" \/ ps.indentStart # UndefNum \/ ps.lineSpacing # UndefNum)
    IN  IF runLength = 0 THEN acc
        ELSE [acc EXCEPT
                !.styles = Append(acc.styles,
                    Req("updateTextStyle", "FIXED_RANGE", s, e, NoText, runFontSize(run, el),
                        "", UndefNum, UndefNum)),
                !.creates = IF start /\ hasValidBullet(run)
                            THEN Append(acc.creates, RangeReq("createParagraphBullets", s, e))
                            ELSE acc.creates,
                !.deletes = IF start /\ ~hasValidBullet(run)
                            THEN Append(acc.deletes, RangeReq("deleteParagraphBullets", s, e))
                            ELSE acc.deletes,
                !.pstyles = IF start /\ hasPFields
                            THEN Append(acc.pstyles,
                                   Req("updateParagraphStyle", "FIXED_RANGE", s, e, NoText, 0,
                                       IF ps.align # "" THEN alignMap(ps.align) ELSE "",
                                       ps.indentStart, ps.lineSpacing))
                            ELSE acc.pstyles,
                !.currentIndex = e]

\* A loop that counts the empty runs it skips as one character each.
RECURSIVE encodeLoopCountsEmpty(_, _, _)
encodeLoopCountsEmpty(el, i, acc) ==
    IF i > Len(el.textRuns) THEN acc
    ELSE encodeLoopCountsEmpty(el, i + 1,
            IF Len(el.textRuns[i].text) = 0
            THEN [acc EXCEPT !.currentIndex = acc.currentIndex + 1]
            ELSE encodeStep(el, i, acc))

RECURSIVE encodeLoop(_, _, _)
encodeLoop(el, i, acc) ==
    IF i > Len(el.textRuns) THEN acc
    ELSE encodeLoop(el, i + 1, encodeStep(el, i, acc))

\* A trailing style request that takes the font size of the first run.
trailingStyleRequestOfFirstRun(el, runsText) ==
    Req("updateTextStyle", "FIXED_RANGE", Len(runsText), Len(runsText) + 1, NoText,
        runFontSize(el.textRuns[1], el), "", UndefNum, UndefNum)

\* The style request for the structural trailing newline.
trailingStyleRequest(el, runsText) ==
    Req("updateTextStyle", "FIXED_RANGE", Len(runsText), Len(runsText) + 1, NoText,
        runFontSize(el.textRuns[Len(el.textRuns)], el), "", UndefNum, UndefNum)

\* An encoder that pushes the bullet deletes before the bullet creates.
runPathRequestsDeletesFirst(el) ==
    LET runsText == JoinTexts(el.textRuns)
        acc == encodeLoop(el, 1, [styles |-> <<>>, creates |-> <<>>, deletes |-> <<>>,
                                  pstyles |-> <<>>, currentIndex |-> 0])
    IN  << Req("insertText", "NONE", 0, 0, runsText, 0, "", UndefNum, UndefNum),
           RangeReq("deleteParagraphBullets", 0, Len(runsText)) >>
        \o acc.styles
        \o << trailingStyleRequest(el, runsText) >>
        \o acc.deletes \o acc.creates \o acc.pstyles

runPathRequests(el) ==
    LET runsText == JoinTexts(el.textRuns)
        acc == encodeLoop(el, 1, [styles |-> <<>>, creates |-> <<>>, deletes |-> <<>>,
                                  pstyles |-> <<>>, currentIndex |-> 0])
    IN  << Req("insertText", "NONE", 0, 0, runsText, 0, "", UndefNum, UndefNum),
           RangeReq("deleteParagraphBullets", 0, Len(runsText)) >>
        \o acc.styles
        \o << trailingStyleRequest(el, runsText) >>
        \o acc.creates \o acc.deletes \o acc.pstyles

simplePathRequests(el, textContent) ==
    << Req("insertText", "NONE", 0, 0, textContent, 0, "", UndefNum, UndefNum),
       Req("updateTextStyle", "ALL", 0, 0, NoText,
           IF el.fontSize # 0 THEN el.fontSize ELSE DefaultsFontSize, "", UndefNum, UndefNum) >>
    \o (IF el.align # ""
        THEN << Req("updateParagraphStyle", "ALL", 0, 0, NoText, 0, alignMap(el.align),
                    UndefNum, UndefNum) >>
        ELSE <<>>)

buildTextContentRequests(el) ==
    LET textContent == cleanText(el.text)
    IN  IF Len(textContent) = 0 THEN <<>>
        ELSE IF Len(el.textRuns) > 1 THEN runPathRequests(el)
        ELSE simplePathRequests(el, textContent)

(***************************************************************************)
(* The text pipeline: an element is extracted from a stream or loaded from *)
(* JSON, then its text requests are built.                                 *)
(***************************************************************************)
NoTextData == [plainText |-> <<>>, runs |-> <<>>]

TextInit ==
    /\ pc = "idle"
    /\ origin = "none"
    /\ textElements = <<>>
    /\ textData = NoTextData
    /\ element = NoElement
    /\ requests = <<>>

ExtractShape ==
    /\ pc = "idle"
    /\ \E elems \in Streams, isTextBox \in BOOLEAN :
         /\ textElements' = elems
         /\ textData' = extractTextAdvanced(elems)
         /\ element' = extractShapeAdvanced(elems, isTextBox)
    /\ origin' = "extract"
    /\ pc' = "ready"
    /\ UNCHANGED <<requests, tfVars, colorVars, genVars, inheritVars, slideVars, laterVars>>

LoadJson ==
    /\ pc = "idle"
    /\ \E el \in JsonElements : element' = el
    /\ origin' = "json"
    /\ pc' = "ready"
    /\ UNCHANGED <<textElements, textData, requests, tfVars, colorVars, genVars, inheritVars, slideVars, laterVars>>

BuildText ==
    /\ pc = "ready"
    /\ requests' = buildTextContentRequests(element)
    /\ pc' = "built"
    /\ UNCHANGED <<origin, textElements, textData, element, tfVars, colorVars, genVars, inheritVars, slideVars, laterVars>>


(***************************************************************************)
(* Properties of the text codec.                                           *)
(***************************************************************************)
Built == pc = "built"

RunPath == Built /\ requests # <<>> /\ Len(element.textRuns) > 1

RECURSIVE SumLen(_)
SumLen(rs) == IF rs = <<>> THEN 0 ELSE Len(rs[1].text) + SumLen(Tail(rs))

\* The positions of the non-empty text runs of a stream, in order.
RunPositions(elems) ==
    SelectSeq([i \in 1..Len(elems) |-> i],
              LAMBDA i : elems[i].kind = "run" /\ Len(elems[i].content) > 0)

\* The position of the nearest marker before position i, 0 when there is none.
PrecedingMarker(elems, i) ==
    LET ms == { j \in 1..(i - 1) : elems[j].kind = "marker" }
    IN  IF ms = {} THEN 0 ELSE CHOOSE j \in ms : \A k \in ms : k <= j

RunCarriesMarker(run, elems, i) ==
    LET j == PrecedingMarker(elems, i)
    IN  IF j = 0
        THEN /\ run.paragraphStyle = DefaultPStyle
             /\ run.bullet.isNull
        ELSE /\ run.paragraphStyle = buildParagraphData(elems[j]).pStyle
             /\ run.bullet = elems[j].bullet

\* C1: every decoded run carries the paragraph style and bullet of the nearest
\* marker that precedes it in the stream, and the default style (left-aligned,
\* no bullet) when no marker precedes it.
C1_RunsCarryPrecedingMarker ==
    origin = "extract" =>
        LET pos == RunPositions(textElements)
            runs == textData.runs
        IN  /\ Len(runs) <= Len(pos)
            /\ Len(runs) >= Len(pos) - 1
            /\ \A k \in 1..Len(runs) : RunCarriesMarker(runs[k], textElements, pos[k])

\* The scenario Header/Item: a plain marker, a run, a bullet marker, a run.
C1_Witness ==
    /\ origin = "extract"
    /\ Len(textElements) = 4
    /\ textElements[1].kind = "marker" /\ textElements[1].bullet.isNull
    /\ textElements[2].kind = "run"
    /\ textElements[3].kind = "marker" /\ ~textElements[3].bullet.isNull
    /\ textElements[4].kind = "run"
    /\ Len(textData.runs) = 2
    /\ textData.runs[1].bullet.isNull
    /\ textData.runs[2].bullet.listId = "L1"

IsRange(r) == r.rangeType = "FIXED_RANGE"

IsTrailingStyle(r, total) ==
    r.op = "updateTextStyle" /\ IsRange(r) /\ r.startIndex = total /\ r.endIndex = total + 1

\* C2 as stated: the inserted string is as long as the runs together and no
\* range operation ends beyond that length.
C2_NoRangeBeyondTotal ==
    RunPath =>
        LET total == SumLen(element.textRuns)
        IN  /\ requests[1].op = "insertText"
            /\ Len(requests[1].text) = total
            /\ \A i \in 1..Len(requests) : IsRange(requests[i]) => requests[i].endIndex <= total

\* C2 amended: for a run list of more than one run the inserted string is as
\* long as the runs together, and every range operation ends within that
\* length except exactly one, the style operation for the structural trailing
\* character, which covers [total, total + 1).
C2_RangesWithinTotalButTrailing ==
    RunPath =>
        LET total == SumLen(element.textRuns)
        IN  /\ requests[1].op = "insertText"
            /\ Len(requests[1].text) = total
            /\ \A i \in 1..Len(requests) :
                 IsRange(requests[i]) =>
                    \/ requests[i].endIndex <= total
                    \/ IsTrailingStyle(requests[i], total)
            /\ Cardinality({ i \in 1..Len(requests) : IsTrailingStyle(requests[i], total) }) = 1

C2_Witness ==
    /\ RunPath
    /\ SumLen(element.textRuns) >= 3
    /\ \E i \in 1..Len(requests) :
         /\ requests[i].op = "updateTextStyle"
         /\ requests[i].startIndex > 0
         /\ requests[i].endIndex = SumLen(element.textRuns)
    /\ \E i \in 1..Len(element.textRuns) : Len(element.textRuns[i].text) = 0

IsCreate(r) == r.op = "createParagraphBullets"

IsDelete(r) == r.op = "deleteParagraphBullets"

IsPStyle(r) == r.op = "updateParagraphStyle"

OrderedFrom(first) ==
    \A i, j \in first..Len(requests) :
        i < j => /\ ~(IsDelete(requests[i]) /\ IsCreate(requests[j]))
                 /\ ~(IsPStyle(requests[i]) /\ (IsCreate(requests[j]) \/ IsDelete(requests[j])))

\* C3 as stated: every bullet-create operation comes before every
\* bullet-delete operation, and every bullet-delete before every
\* paragraph-style operation.
C3_CreateDeleteStyleOrder == Built => OrderedFrom(1)

\* C3 amended: the list opens with the text insert and one bullet-delete over
\* the whole text; after these two, every bullet-create comes before every
\* bullet-delete and every bullet-delete before every paragraph-style
\* operation.
C3_OrderAfterCleanSlate ==
    Built =>
        /\ OrderedFrom(3)
        /\ RunPath =>
              /\ requests[1].op = "insertText"
              /\ requests[2] = RangeReq("deleteParagraphBullets", 0, Len(requests[1].text))

C3_Witness ==
    /\ RunPath
    /\ \E i, j, k \in 3..Len(requests) :
         /\ i < j /\ j < k
         /\ IsCreate(requests[i]) /\ IsDelete(requests[j]) /\ IsPStyle(requests[k])
    /\ \E i, j \in 1..Len(element.textRuns) :
         /\ i < j
         /\ ~hasValidBullet(element.textRuns[i]) /\ isParagraphStart(element.textRuns, i)
         /\ Len(element.textRuns[i].text) > 0
         /\ hasValidBullet(element.textRuns[j]) /\ isParagraphStart(element.textRuns, j)
         /\ Len(element.textRuns[j].text) > 0

(***************************************************************************)
(* Round trip of the text codec.                                           *)
(***************************************************************************)
\* A stream as the reading service produces it: paragraphs, each a marker
\* followed by non-empty runs of which the last, and only the last, ends with
\* the paragraph's newline.
WellFormedStream(elems) ==
    /\ Len(elems) > 0
    /\ elems[1].kind = "marker"
    /\ elems[Len(elems)].kind = "run"
    /\ \A i \in 1..Len(elems) :
         IF elems[i].kind = "marker"
         THEN i < Len(elems) /\ elems[i + 1].kind = "run"
         ELSE /\ Len(elems[i].content) > 0
              /\ \A k \in 1..(Len(elems[i].content) - 1) : elems[i].content[k] # NL
              /\ EndsWithNL(elems[i].content) <=> (i = Len(elems) \/ elems[i + 1].kind = "marker")

RECURSIVE StreamText(_)
StreamText(elems) ==
    IF elems = <<>> THEN <<>>
    ELSE (IF elems[1].kind = "run" THEN elems[1].content ELSE <<>>) \o StreamText(Tail(elems))

\* The text offset at which the paragraph of the marker at position j starts.
MarkerOffset(elems, j) == Len(StreamText(SubSeq(elems, 1, j - 1)))

InsertedText == IF requests = <<>> THEN <<>> ELSE requests[1].text

\* Offsets of the bulleted paragraphs of the original that start inside the
\* reproduced text.
OriginalBulletOffsets(elems) ==
    { MarkerOffset(elems, j) : j \in { k \in 1..Len(elems) :
          /\ elems[k].kind = "marker"
          /\ ~elems[k].bullet.isNull
          /\ MarkerOffset(elems, k) < Len(StreamText(elems)) - 1 } }

EncodedBulletOffsets ==
    { requests[i].startIndex : i \in { k \in 1..Len(requests) : IsCreate(requests[k]) } }

RoundTripHolds ==
    /\ InsertedText = DropLast(StreamText(textElements))
    /\ EncodedBulletOffsets = OriginalBulletOffsets(textElements)

\* C8: encoding the decoded stream reproduces the plain text, apart from the
\* trailing newline, and puts a bullet on exactly the offsets of the original
\* bulleted paragraphs, for streams of any number of runs.
C8_RoundTrip ==
    (Built /\ origin = "extract" /\ WellFormedStream(textElements)) => RoundTripHolds

\* The same for the streams that decode to more than one run.
RoundTripOfRunPath ==
    (Built /\ origin = "extract" /\ WellFormedStream(textElements) /\ Len(textData.runs) > 1)
        => RoundTripHolds

(***************************************************************************)
(* The affine-transform codec.                                             *)
(* A transform is the object the reading service returns: each of its six  *)
(* fields may be absent (has lists the fields that are present).  Matrix   *)
(* entries are integers, lengths are integers in EMU.  Angles are the      *)
(* multiples of 45 degrees, sines and cosines are in thousandths.          *)
(***************************************************************************)
ADVANCED_EMU_PER_PT == 12700

SCALE == 1

DefaultSizeWH == 100

LinearFields == {"scaleX", "scaleY", "shearX", "shearY"}

AllFields == LinearFields \cup {"translateX", "translateY"}

Xf(has, scx, shx, shy, scy, tx, ty) ==
    [has |-> has, scaleX |-> scx, shearX |-> shx, shearY |-> shy, scaleY |-> scy,
     translateX |-> tx, translateY |-> ty]

FullXf(scx, shx, shy, scy, tx, ty) == Xf(AllFields, scx, shx, shy, scy, tx, ty)

EmptyXf == Xf({}, 0, 0, 0, 0, 0, 0)

Identity == FullXf(1, 0, 0, 1, 0, 0)

\* transform.f !== undefined ? transform.f : d
FieldOr(t, f, d) == IF f \in t.has THEN t[f] ELSE d

\* transform.f || 0
FieldOrZero(t, f) == IF f \in t.has THEN t[f] ELSE 0

composeTransforms(parent, child) ==
    LET pScaleX == FieldOr(parent, "scaleX", 1)
        pScaleY == FieldOr(parent, "scaleY", 1)
        pShearX == FieldOrZero(parent, "shearX")
        pShearY == FieldOrZero(parent, "shearY")
        pTranslateX == FieldOrZero(parent, "translateX")
        pTranslateY == FieldOrZero(parent, "translateY")
        cScaleX == FieldOr(child, "scaleX", 1)
        cScaleY == FieldOr(child, "scaleY", 1)
        cShearX == FieldOrZero(child, "shearX")
        cShearY == FieldOrZero(child, "shearY")
        cTranslateX == FieldOrZero(child, "translateX")
        cTranslateY == FieldOrZero(child, "translateY")
    IN  FullXf(pScaleX * cScaleX + pShearX * cShearY,
               pScaleX * cShearX + pShearX * cScaleY,
               pShearY * cScaleX + pScaleY * cShearY,
               pShearY * cShearX + pScaleY * cScaleY,
               pTranslateX + pScaleX * cTranslateX + pShearX * cTranslateY,
               pTranslateY + pShearY * cTranslateX + pScaleY * cTranslateY)

(***************************************************************************)
(* Arithmetic of the decomposition.                                        *)
(***************************************************************************)
Abs(n) == IF n < 0 THEN -n ELSE n

\* Math.round(num / den) for den > 0: halves round up.
RoundDiv(num, den) == (2 * num + den) \div (2 * den)

RECURSIVE ISqrtIn(_, _, _)
ISqrtIn(n, lo, hi) ==
    IF lo >= hi THEN lo
    ELSE LET mid == (lo + hi + 1) \div 2
         IN  IF mid * mid <= n THEN ISqrtIn(n, mid, hi) ELSE ISqrtIn(n, lo, mid - 1)

\* Math.sqrt(sq) in thousandths, for small integers sq.
SqrtMilli(sq) == ISqrtIn(sq * 1000000, 0, 1000 * (sq + 1))

\* Math.atan2(y, x) in degrees, in (-180, 180], for the directions that lie
\* on an axis or a diagonal.
Atan2Deg(y, x) ==
    CASE y = 0 /\ x >= 0 -> 0
      [] y = 0 /\ x < 0 -> 180
      [] x = 0 /\ y > 0 -> 90
      [] x = 0 /\ y < 0 -> -90
      [] y > 0 /\ x = y -> 45
      [] y > 0 /\ x = -y -> 135
      [] y < 0 /\ x = y -> -135
      [] y < 0 /\ x = -y -> -45

CosMilli(deg) ==
    CASE deg \in {0} -> 1000
      [] deg \in {45, -45} -> 707
      [] deg \in {90, -90} -> 0
      [] deg \in {135, -135} -> -707
      [] deg \in {180} -> -1000

SinMilli(deg) ==
    CASE deg \in {0, 180} -> 0
      [] deg \in {45, 135} -> 707
      [] deg \in {90} -> 1000
      [] deg \in {-45, -135} -> -707
      [] deg \in {-90} -> -1000

emuToPt(emu) == RoundDiv(emu, ADVANCED_EMU_PER_PT)

(***************************************************************************)
(* extractElementAdvanced: the transform used for an element and the       *)
(* geometry decomposed from it.                                            *)
(***************************************************************************)
\* The normalisation and rounding of the rotation, from thousandths of a
\* degree in (-180000, 180000] to hundredths of a degree:
\* if (deg < 0) deg += 360; deg = Math.round(deg * 100) / 100.
normalizeRotation(rawMilli) ==
    LET rotationDeg == IF rawMilli < 0 THEN rawMilli + 360000 ELSE rawMilli
    IN  RoundDiv(rotationDeg, 10)

\* The transform of an element under the transform handed down by its group.
elementTransform(hasParent, parentTransform, elTransform) ==
    IF hasParent THEN composeTransforms(parentTransform, elTransform) ELSE elTransform

\* The transform handed to an element inside the groups gs (outermost first).
RECURSIVE groupTransform(_, _, _)
groupTransform(gs, hasParent, parentTransform) ==
    IF gs = <<>> THEN [has |-> hasParent, t |-> parentTransform]
    ELSE groupTransform(Tail(gs), TRUE, elementTransform(hasParent, parentTransform, gs[1]))

extractBase(transform, size) ==
    LET hasAnyTransformValue == transform.has \cap LinearFields # {}
        defaultScale == IF hasAnyTransformValue THEN 0 ELSE 1
        scaleX == FieldOr(transform, "scaleX", defaultScale)
        scaleY == FieldOr(transform, "scaleY", defaultScale)
        shearX == FieldOrZero(transform, "shearX")
        shearY == FieldOrZero(transform, "shearY")
        translateX == FieldOrZero(transform, "translateX")
        translateY == FieldOrZero(transform, "translateY")
        scaleW == SqrtMilli(scaleX * scaleX + shearY * shearY)
        scaleH == SqrtMilli(shearX * shearX + scaleY * scaleY)
        rotationRaw == Atan2Deg(shearY, scaleX)
        rotationDeg == normalizeRotation(1000 * rotationRaw) \div 100
        det == scaleX * scaleY - shearX * shearY
        actualWidth == (size.width * scaleW) \div 1000
        actualHeight == (size.height * scaleH) \div 1000
        cos == CosMilli(rotationRaw)
        sin == SinMilli(rotationRaw)
        \* half extents times (1 - cos) and times sin
        halfW1mCos == (actualWidth * (1000 - cos)) \div 2000
        halfH1mCos == (actualHeight * (1000 - cos)) \div 2000
        halfWSin == (actualWidth * sin) \div 2000
        halfHSin == (actualHeight * sin) \div 2000
        topLeftX == translateX - halfW1mCos - halfHSin
        topLeftY == translateY - halfH1mCos + halfWSin
    IN  [scaleX |-> scaleX, scaleY |-> scaleY, shearX |-> shearX, shearY |-> shearY,
         scaleW |-> scaleW, scaleH |-> scaleH,
         x |-> emuToPt(topLeftX),
         y |-> emuToPt(topLeftY),
         w |-> emuToPt(actualWidth),
         h |-> emuToPt(actualHeight),
         rotation |-> rotationDeg,
         flipH |-> det < 0,
         flipV |-> FALSE,
         baseSize |-> size,
         composedTransform |-> transform]

extractElementAdvanced(gs, elTransform, size) ==
    LET parent == groupTransform(gs, FALSE, EmptyXf)
    IN  extractBase(elementTransform(parent.has, parent.t, elTransform), size)

(***************************************************************************)
(* buildTransform, for rotations by quarter turns.                         *)
(***************************************************************************)
CosQuarter(rot) == CASE rot = 0 -> 1 [] rot = 90 -> 0 [] rot = 180 -> -1 [] rot = 270 -> 0

SinQuarter(rot) == CASE rot = 0 -> 0 [] rot = 90 -> 1 [] rot = 180 -> 0 [] rot = 270 -> -1

\* The matrix in points; translations are kept doubled (tx2, ty2) because of
\* the half extents.
buildTransform(x, y, rotation, w, h, flipH, flipV) ==
    LET px == x * SCALE
        py == y * SCALE
        pw == (IF w = 0 THEN DefaultSizeWH ELSE w) * SCALE
        ph == (IF h = 0 THEN DefaultSizeWH ELSE h) * SCALE
        cos == CosQuarter(rotation)
        sin == SinQuarter(rotation)
        sx == IF flipH THEN -1 ELSE 1
        sy == IF flipV THEN -1 ELSE 1
    IN  [scaleX |-> sx * cos, scaleY |-> sy * cos, shearX |-> (-sy) * sin, shearY |-> sx * sin,
         tx2 |-> 2 * px + pw * (1 - cos) + ph * sin,
         ty2 |-> 2 * py + ph * (1 - cos) - pw * sin]

\* The element as the reading service returns it after it was created with
\* the built transform and size: lengths in EMU, and the fields whose value
\* is zero left out when omitZeros.
storedTransform(m, omitZeros) ==
    LET keep(f, v) == IF omitZeros /\ v = 0 THEN {} ELSE {f}
    IN  Xf(keep("scaleX", m.scaleX) \cup keep("scaleY", m.scaleY) \cup keep("shearX", m.shearX)
             \cup keep("shearY", m.shearY) \cup keep("translateX", m.tx2) \cup keep("translateY", m.ty2),
           m.scaleX, m.shearX, m.shearY, m.scaleY,
           (m.tx2 * ADVANCED_EMU_PER_PT) \div 2, (m.ty2 * ADVANCED_EMU_PER_PT) \div 2)

(***************************************************************************)
(* Inputs of the transform codec.                                          *)
(***************************************************************************)
Pt(n) == n * ADVANCED_EMU_PER_PT

RawTransforms ==
    { EmptyXf,
      Xf({"translateX", "translateY"}, 0, 0, 0, 0, Pt(10), Pt(20)),
      Xf({"scaleX", "scaleY", "translateX"}, 1, 0, 0, 1, Pt(10), 0),
      Xf({"scaleX", "scaleY", "translateX", "translateY"}, 2, 0, 0, 2, Pt(10), Pt(20)),
      Xf({"shearX", "shearY", "translateX", "translateY"}, 0, 1, -1, 0, Pt(10), Pt(20)),
      Xf({"shearX", "shearY", "translateY"}, 0, -1, 1, 0, 0, Pt(20)),
      Xf({"scaleX", "scaleY", "translateX", "translateY"}, -1, 0, 0, 1, Pt(30), Pt(20)),
      Xf({"scaleX", "scaleY"}, -1, 0, 0, -1, 0, 0),
      FullXf(1, 0, 0, 1, Pt(10), Pt(20)),
      FullXf(0, 1, -1, 0, Pt(10), Pt(20)),
      Identity }

Sizes == { [width |-> Pt(w), height |-> Pt(h)] : w \in {0, 2}, h \in {2, 4} }

GroupChains == UNION { [1..n -> RawTransforms] : n \in 0..MaxDepth }

BuildInputs ==
    [x : {0, 10}, y : {0, 6}, rotation : {0, 90, 180, 270}, w : {2, 4}, h : {2, 6},
     flipH : BOOLEAN, flipV : BOOLEAN]

NoTf == [kind |-> "none"]

TransformInit ==
    /\ tfOp = "none"
    /\ tfIn = NoTf
    /\ tfOut = NoTf

\* extractElementAdvanced on an element inside the groups gs.
ExtractElement ==
    /\ tfOp = "none"
    /\ \E gs \in GroupChains, t \in RawTransforms, size \in Sizes :
         /\ tfIn' = [groups |-> gs, transform |-> t, size |-> size]
         /\ tfOut' = extractElementAdvanced(gs, t, size)
    /\ tfOp' = "extract"
    /\ UNCHANGED <<textVars, colorVars, genVars, inheritVars, slideVars, laterVars>>

\* composeTransforms with the identity on either side.
ComposeWithIdentity ==
    /\ tfOp = "none"
    /\ \E t \in RawTransforms :
         /\ tfIn' = [transform |-> t]
         /\ tfOut' = [left |-> composeTransforms(Identity, t),
                      right |-> composeTransforms(t, Identity)]
    /\ tfOp' = "compose"
    /\ UNCHANGED <<textVars, colorVars, genVars, inheritVars, slideVars, laterVars>>

\* buildTransform, creation of the element, and extraction of what was created.
BuildAndExtract ==
    /\ tfOp = "none"
    /\ \E i \in BuildInputs, omitZeros \in BOOLEAN :
         LET m == buildTransform(i.x, i.y, i.rotation, i.w, i.h, i.flipH, i.flipV)
         IN  /\ tfIn' = i
             /\ tfOut' = extractElementAdvanced(<<>>, storedTransform(m, omitZeros),
                             [width |-> Pt(i.w * SCALE), height |-> Pt(i.h * SCALE)])
    /\ tfOp' = "roundtrip"
    /\ UNCHANGED <<textVars, colorVars, genVars, inheritVars, slideVars, laterVars>>

(***************************************************************************)
(* Properties of the transform codec.                                      *)
(***************************************************************************)
\* The reading rule for omitted fields: an omitted scale is 0 when any of the
\* four linear fields is present and 1 when none is; an omitted shear or
\* translation is 0.
ReadScale(t, f) == IF f \in t.has THEN t[f] ELSE IF t.has \cap LinearFields # {} THEN 0 ELSE 1

ReadOther(t, f) == IF f \in t.has THEN t[f] ELSE 0

ReadMatrix(t) ==
    [scaleX |-> ReadScale(t, "scaleX"), shearX |-> ReadOther(t, "shearX"),
     shearY |-> ReadOther(t, "shearY"), scaleY |-> ReadScale(t, "scaleY"),
     translateX |-> ReadOther(t, "translateX"), translateY |-> ReadOther(t, "translateY")]

MatMul(p, c) ==
    [scaleX |-> p.scaleX * c.scaleX + p.shearX * c.shearY,
     shearX |-> p.scaleX * c.shearX + p.shearX * c.scaleY,
     shearY |-> p.shearY * c.scaleX + p.scaleY * c.shearY,
     scaleY |-> p.shearY * c.shearX + p.scaleY * c.scaleY,
     translateX |-> p.translateX + p.scaleX * c.translateX + p.shearX * c.translateY,
     translateY |-> p.translateY + p.shearY * c.translateX + p.scaleY * c.translateY]

RECURSIVE WorldMatrix(_, _)
WorldMatrix(gs, t) ==
    IF gs = <<>> THEN ReadMatrix(t) ELSE MatMul(ReadMatrix(gs[1]), WorldMatrix(Tail(gs), t))

SixFields(t) ==
    [scaleX |-> t.scaleX, shearX |-> t.shearX, shearY |-> t.shearY, scaleY |-> t.scaleY,
     translateX |-> t.translateX, translateY |-> t.translateY]

\* C5: at top level and inside groups alike, an omitted scaleX or scaleY is
\* read as 0 when a linear field is present and as 1 only when none is, so the
\* matrix that is decomposed is the product of the matrices read by that rule
\* and a quarter turn held in the shear fields has scale factors of 1.
C5_OmittedScaleReadsZero ==
    tfOp = "extract" =>
        LET m == WorldMatrix(tfIn.groups, tfIn.transform)
        IN  /\ tfOut.scaleX = m.scaleX
            /\ tfOut.scaleY = m.scaleY
            /\ tfOut.scaleW = SqrtMilli(m.scaleX * m.scaleX + m.shearY * m.shearY)
            /\ tfOut.scaleH = SqrtMilli(m.shearX * m.shearX + m.scaleY * m.scaleY)

\* The same for top-level elements only.
OmittedScaleReadsZeroAtTopLevel ==
    (tfOp = "extract" /\ tfIn.groups = <<>>) =>
        LET m == ReadMatrix(tfIn.transform)
        IN  /\ tfOut.scaleX = m.scaleX
            /\ tfOut.scaleY = m.scaleY
            /\ tfOut.scaleW = SqrtMilli(m.scaleX * m.scaleX + m.shearY * m.shearY)
            /\ tfOut.scaleH = SqrtMilli(m.shearX * m.shearX + m.scaleY * m.scaleY)

\* C6: compose(identity, X) = X and compose(X, identity) = X on the six
\* matrix fields, for every transform X.
C6_ComposeIdentityLaw ==
    tfOp = "compose" =>
        /\ SixFields(tfOut.left) = ReadMatrix(tfIn.transform)
        /\ SixFields(tfOut.right) = ReadMatrix(tfIn.transform)

\* The same for the transforms that carry both scale fields.
ComposeIdentityLawWithScales ==
    (tfOp = "compose" /\ {"scaleX", "scaleY"} \subseteq tfIn.transform.has) =>
        /\ SixFields(tfOut.left) = ReadMatrix(tfIn.transform)
        /\ SixFields(tfOut.right) = ReadMatrix(tfIn.transform)

\* C7: decomposing the matrix built from (x, y, rot, w, h, flipH, flipV)
\* gives back x, y, rot, w and h.
C7_DecomposeRecoversBuildInput ==
    tfOp = "roundtrip" =>
        /\ tfOut.x = tfIn.x
        /\ tfOut.y = tfIn.y
        /\ tfOut.rotation = tfIn.rotation
        /\ tfOut.w = tfIn.w
        /\ tfOut.h = tfIn.h

\* The same for the inputs that are not flipped horizontally.
DecomposeRecoversWithoutFlipH ==
    (tfOp = "roundtrip" /\ ~tfIn.flipH) =>
        /\ tfOut.x = tfIn.x
        /\ tfOut.y = tfIn.y
        /\ tfOut.rotation = tfIn.rotation
        /\ tfOut.w = tfIn.w
        /\ tfOut.h = tfIn.h

(***************************************************************************)
(* The theme-color resolver.  A palette maps the theme tokens to hex       *)
(* strings; NoColor stands for a token the palette has no entry for.       *)
(***************************************************************************)
Tokens == {"DARK1", "DARK2"}

NoColor == ""

Palette(dark1, dark2) == [DARK1 |-> dark1, DARK2 |-> dark2]

EmptyPalette == Palette(NoColor, NoColor)

KNOWN_THEME_COLORS == [t \in {"Simple Light"} |-> Palette("#000000", "#434343")]

HardcodedDefaultThemeColors == Palette("#000000", "#595959")

\* a || b on color strings
Or(a, b) == IF a # NoColor THEN a ELSE b

\* {...under, ...over}: the entries of over replace those of under
Overlay(under, over) == [k \in Tokens |-> Or(over[k], under[k])]

(***************************************************************************)
(* The presentations handed to the extractor.  A master has a display      *)
(* name, a color scheme (what slide.getColorScheme() resolves for its      *)
(* slides) and may expose the scheme in masterProperties.colorScheme.  A   *)
(* layout is its background color.  Every slide holds one shape whose text *)
(* run, fill and outline reference the theme token themeColor, and has a   *)
(* page background fill referencing the same token.                        *)
(***************************************************************************)
Master(displayName, colorScheme, explicit) ==
    [displayName |-> displayName, colorScheme |-> colorScheme, explicit |-> explicit]

\* a master without a name, its scheme not exposed
PlainMaster == Master("", Palette("#aa0000", "#00aa00"), FALSE)

\* a master of a known theme, its scheme not exposed and without DARK1
KnownMaster == Master("Simple Light", Palette(NoColor, "#0000aa"), FALSE)

\* a master without a name that exposes its scheme
ExplicitMaster == Master("", Palette(NoColor, "#0000aa"), TRUE)

\* a master of a known theme that exposes its scheme
KnownExplicitMaster == Master("Simple Light", Palette("#aa0000", "#00aa00"), TRUE)

MasterLists ==
    {<<PlainMaster>>, <<KnownMaster>>, <<ExplicitMaster>>, <<KnownExplicitMaster>>,
     <<PlainMaster, KnownMaster>>, <<KnownMaster, PlainMaster>>,
     <<ExplicitMaster, PlainMaster>>, <<KnownMaster, ExplicitMaster>>,
     <<ExplicitMaster, KnownExplicitMaster>>, <<KnownExplicitMaster, ExplicitMaster>>}

LayoutLists == {<<"#ffffff">>, <<"#ffffff", "#1a73e8">>}

SeqsUpTo(S, n) == UNION {[1..k -> S] : k \in 1..n}

Presentations ==
    UNION {[masters : {ms}, layouts : LayoutLists,
            slides : SeqsUpTo([master : DOMAIN ms], MaxSlides),
            themeColor : Tokens] : ms \in MasterLists}

NoPresentation == [masters |-> <<>>, layouts |-> <<>>, slides |-> <<>>, themeColor |-> NoColor]

\* blue > 0.6 and blue above red and green
IsBlue(hex) == hex \in {"#1a73e8", "#2196f3"}

Occurrences(colors, c) == Cardinality({i \in DOMAIN colors : colors[i] = c})

detectProminentLayoutColors(layouts) ==
    LET blueColors == SelectSeq(layouts, IsBlue)
    IN  IF blueColors = <<>> THEN NoColor
        ELSE LET first == CHOOSE i \in DOMAIN blueColors :
                     /\ \A j \in DOMAIN blueColors :
                            Occurrences(blueColors, blueColors[j]) <= Occurrences(blueColors, blueColors[i])
                     /\ \A j \in 1..(i - 1) :
                            Occurrences(blueColors, blueColors[j]) < Occurrences(blueColors, blueColors[i])
             IN  blueColors[first]

RECURSIVE explicitColorMap(_, _, _)
explicitColorMap(masters, i, colorMap) ==
    IF i > Len(masters) THEN colorMap
    ELSE explicitColorMap(masters, i + 1,
             IF masters[i].explicit THEN Overlay(colorMap, masters[i].colorScheme) ELSE colorMap)

themeNameOf(masters) ==
    LET named == SelectSeq(masters, LAMBDA m : m.displayName # "")
    IN  IF named = <<>> THEN "" ELSE named[1].displayName

\* defaults is the DEFAULT_THEME_COLORS object as the invocation finds it;
\* _activeThemeColors refers to that very object until it is assigned a copy.
extractThemeColorMap(defaults, pres) ==
    LET colorMap == explicitColorMap(pres.masters, 1, EmptyPalette)
        themeName == themeNameOf(pres.masters)
        known == colorMap = EmptyPalette /\ themeName \in DOMAIN KNOWN_THEME_COLORS
        active1 == IF known THEN KNOWN_THEME_COLORS[themeName] ELSE defaults
        prominentBlue == detectProminentLayoutColors(pres.layouts)
        override == prominentBlue # NoColor /\ active1["DARK1"] = "#000000"
        active2 == IF override THEN [active1 EXCEPT !["DARK1"] = prominentBlue] ELSE active1
        defaults2 == IF known THEN defaults ELSE active2
    IN  [colorMap |-> colorMap,
         active |-> IF colorMap # EmptyPalette THEN Overlay(Overlay(defaults2, active2), colorMap)
                    ELSE active2,
         isDefault |-> colorMap = EmptyPalette /\ ~known,
         defaults |-> defaults2]

buildResolvedColorCache(pres) ==
    LET perSlide == [i \in DOMAIN pres.slides |-> pres.masters[pres.slides[i].master].colorScheme]
    IN  [perSlide |-> perSlide,
         fills |-> [i \in DOMAIN pres.slides |-> perSlide[i][pres.themeColor]]]

getResolvedThemeColorMap(perSlide, slideIndex) ==
    IF slideIndex \in DOMAIN perSlide THEN perSlide[slideIndex] ELSE EmptyPalette

resolveTextColorStaticFirst(slideThemeColors, colorMap, active, defaults, themeKey) ==
    Or(colorMap[themeKey], Or(slideThemeColors[themeKey],
       Or(active[themeKey], Or(defaults[themeKey], "#000000"))))

resolveTextColor(slideThemeColors, colorMap, active, defaults, themeKey) ==
    Or(slideThemeColors[themeKey], Or(colorMap[themeKey],
       Or(active[themeKey], Or(defaults[themeKey], "#000000"))))

extractFillAdvanced(fills, objectId, colorMap, active, defaults, themeKey) ==
    IF objectId \in DOMAIN fills /\ fills[objectId] # NoColor THEN fills[objectId]
    ELSE Or(colorMap[themeKey], Or(active[themeKey], Or(defaults[themeKey], "#000000")))

extractOutlineColorAdvanced(colorMap, active, defaults, themeKey) ==
    Or(colorMap[themeKey], Or(active[themeKey], Or(defaults[themeKey], "none")))

\* without a resolved page fill, a slide that has no background shape and a
\* presentation whose layouts and masters index no background end at white
resolveSlideBackground(colorMap, active, defaults, themeKey) ==
    Or(colorMap[themeKey], Or(active[themeKey], Or(defaults[themeKey], "#ffffff")))

extractPresentationAdvanced(defaults, pres) ==
    LET cache == buildResolvedColorCache(pres)
        theme == extractThemeColorMap(defaults, pres)
        k == pres.themeColor
    IN  [defaults |-> theme.defaults,
         active |-> theme.active,
         isDefault |-> theme.isDefault,
         colorMap |-> theme.colorMap,
         perSlide |-> cache.perSlide,
         fills |-> cache.fills,
         slides |-> [i \in DOMAIN pres.slides |->
             [text |-> resolveTextColor(getResolvedThemeColorMap(cache.perSlide, i),
                           theme.colorMap, theme.active, theme.defaults, k),
              fill |-> extractFillAdvanced(cache.fills, i, theme.colorMap, theme.active,
                           theme.defaults, k),
              outline |-> extractOutlineColorAdvanced(theme.colorMap, theme.active,
                              theme.defaults, k),
              background |-> resolveSlideBackground(theme.colorMap, theme.active,
                                 theme.defaults, k)]]]

ColorInit ==
    /\ DEFAULT_THEME_COLORS = HardcodedDefaultThemeColors
    /\ activeThemeColors = HardcodedDefaultThemeColors
    /\ activeIsDefault = TRUE
    /\ themeColorMap = EmptyPalette
    /\ resolvedThemeColorMapsPerSlide = <<>>
    /\ resolvedFillColors = <<>>
    /\ presentation = NoPresentation
    /\ json = <<>>

\* One invocation of extractPresentationAdvanced in the runtime.
ExtractPresentation ==
    \E pres \in Presentations :
        LET r == extractPresentationAdvanced(DEFAULT_THEME_COLORS, pres)
        IN  /\ DEFAULT_THEME_COLORS' = r.defaults
            /\ activeThemeColors' = r.active
            /\ activeIsDefault' = r.isDefault
            /\ themeColorMap' = r.colorMap
            /\ resolvedThemeColorMapsPerSlide' = r.perSlide
            /\ resolvedFillColors' = r.fills
            /\ presentation' = pres
            /\ json' = r.slides
            /\ UNCHANGED <<textVars, tfVars, genVars, inheritVars, slideVars, laterVars>>

(***************************************************************************)
(* Properties of the theme-color resolver.                                 *)
(***************************************************************************)
Extracted == presentation # NoPresentation

Sites == {"text", "fill", "outline", "background"}

SchemeOfSlide(i) == presentation.masters[presentation.slides[i].master].colorScheme

\* C4: the output produced for a document is the same whatever documents
\* were extracted before it in the same runtime: it is the output of an
\* extraction that starts from the default palette as written in the source.
C4_OutputIndependentOfHistory ==
    Extracted =>
        json = extractPresentationAdvanced(HardcodedDefaultThemeColors, presentation).slides

\* What is rebuilt by every invocation: the static theme map and the two
\* resolved-color caches depend on the presentation alone.
RebuiltCachesDependOnPresentationOnly ==
    Extracted =>
        LET fresh == extractPresentationAdvanced(HardcodedDefaultThemeColors, presentation)
        IN  /\ themeColorMap = fresh.colorMap
            /\ resolvedThemeColorMapsPerSlide = fresh.perSlide
            /\ resolvedFillColors = fresh.fills

PerSlideResolutionAt(sites) ==
    Extracted =>
        \A i, j \in DOMAIN json : \A site \in sites :
            LET k == presentation.themeColor
                a == SchemeOfSlide(i)[k]
                b == SchemeOfSlide(j)[k]
            IN  /\ presentation.slides[i].master = presentation.slides[j].master
                       => json[i][site] = json[j][site]
                /\ (/\ presentation.slides[i].master # presentation.slides[j].master
                    /\ a # NoColor /\ b # NoColor /\ a # b)
                       => json[i][site] # json[j][site]

\* C9: a theme token in a text run, a fill, an outline or a page background
\* resolves to different colors on two slides that inherit from different
\* masters whose schemes differ for the token, and to the same color on two
\* slides that share a master.
C9_PerSlideResolution == PerSlideResolutionAt(Sites)

\* The same for text runs and fills only.
PerSlideResolutionOfTextAndFill == PerSlideResolutionAt({"text", "fill"})

FirstNonEmpty(colors) ==
    LET hits == SelectSeq(colors, LAMBDA c : c # NoColor)
    IN  IF hits = <<>> THEN NoColor ELSE hits[1]

KnownPaletteOf(pres) ==
    LET named == {i \in DOMAIN pres.masters : pres.masters[i].displayName # ""}
        name == IF named = {} THEN ""
                ELSE pres.masters[CHOOSE i \in named : \A j \in named : i <= j].displayName
    IN  IF themeColorMap = EmptyPalette /\ name \in DOMAIN KNOWN_THEME_COLORS
        THEN KNOWN_THEME_COLORS[name] ELSE EmptyPalette

LayoutBlue == detectProminentLayoutColors(presentation.layouts)

BlueOverBlack(palette) ==
    IF LayoutBlue # NoColor /\ palette["DARK1"] = "#000000"
    THEN [palette EXCEPT !["DARK1"] = LayoutBlue] ELSE palette

SlideMapWinsOverStaticMap ==
    /\ Extracted
    /\ \E i \in DOMAIN json :
           LET k == presentation.themeColor
           IN  /\ resolvedThemeColorMapsPerSlide[i][k] # NoColor
               /\ themeColorMap[k] # NoColor
               /\ themeColorMap[k] # resolvedThemeColorMapsPerSlide[i][k]
               /\ json[i].text = resolvedThemeColorMapsPerSlide[i][k]

InsertedTextIsRunsText ==
    RunPath => requests[1].text = JoinTexts(element.textRuns)

\* Start and end of run i in the text inserted for the run list rs.
RunStart(rs, i) == SumLen(SubSeq(rs, 1, i - 1))

RunEnd(rs, i) == RunStart(rs, i) + Len(rs[i].text)

\* The nearest run before i that has text, 0 when there is none.
PrecedingTextRun(rs, i) ==
    LET js == { j \in 1..(i - 1) : Len(rs[j].text) > 0 }
    IN  IF js = {} THEN 0 ELSE CHOOSE j \in js : \A k \in js : k <= j

\* Run i is the first run of a paragraph of the inserted text.
StartsParagraph(rs, i) ==
    /\ Len(rs[i].text) > 0
    /\ LET j == PrecedingTextRun(rs, i)
       IN  j = 0 \/ EndsWithNL(rs[j].text)

IsBulletOp(r) == r.op \in {"createParagraphBullets", "deleteParagraphBullets"}

\* The bullet operations over [s, e), the clean-slate delete (the second
\* request) apart.
BulletOpsAt(s, e) ==
    { k \in 3..Len(requests) :
        /\ IsBulletOp(requests[k])
        /\ requests[k].startIndex = s
        /\ requests[k].endIndex = e }

BulletOpsOfRuns(rs) ==
    \A i \in 1..Len(rs) :
        LET ops == BulletOpsAt(RunStart(rs, i), RunEnd(rs, i))
        IN  IF StartsParagraph(rs, i)
            THEN /\ Cardinality(ops) = 1
                 /\ \A k \in ops :
                        requests[k].op = IF hasValidBullet(rs[i])
                                         THEN "createParagraphBullets"
                                         ELSE "deleteParagraphBullets"
            ELSE Len(rs[i].text) > 0 => ops = {}

\* C14: every paragraph of the run list gets exactly one bullet operation,
\* over its first run: a create when that run has a bullet, a delete when it
\* has none; runs that do not start a paragraph get none.
C14_OneBulletOpPerParagraph ==
    RunPath =>
        /\ BulletOpsOfRuns(element.textRuns)
        /\ Cardinality({ k \in 3..Len(requests) : IsBulletOp(requests[k]) })
             = Cardinality({ i \in 1..Len(element.textRuns) :
                                StartsParagraph(element.textRuns, i) })

\* The same for run lists in which every run has text.
OneBulletOpPerParagraphOfTextRuns ==
    (RunPath /\ \A i \in 1..Len(element.textRuns) : Len(element.textRuns[i].text) > 0)
        => BulletOpsOfRuns(element.textRuns)

\* A paragraph that follows an empty run gets no bullet operation.
ParagraphAfterEmptyRunUnanchored ==
    /\ RunPath
    /\ \E i \in 2..Len(element.textRuns) :
           /\ StartsParagraph(element.textRuns, i)
           /\ Len(element.textRuns[i - 1].text) = 0
           /\ BulletOpsAt(RunStart(element.textRuns, i), RunEnd(element.textRuns, i)) = {}

\* The positions of the runs that have text, in order.
TextRunPositions(rs) ==
    SelectSeq([i \in 1..Len(rs) |-> i], LAMBDA i : Len(rs[i].text) > 0)

\* The style requests emitted for the runs: the ranged style requests, the one
\* for the structural trailing character apart.
RunStyleRequests(rs) ==
    SelectSeq(requests,
              LAMBDA r : /\ r.op = "updateTextStyle"
                         /\ IsRange(r)
                         /\ ~IsTrailingStyle(r, SumLen(rs)))

\* C15: the style ranges emitted for the runs partition the inserted text: the
\* k-th of them covers the k-th run that has text, from the summed length of
\* the runs before it to that sum plus its own length; so the first starts at
\* 0, each starts where the one before ends, and the last ends at the total
\* length.
C15_StyleRangesPartitionText ==
    RunPath =>
        LET rs == element.textRuns
            pos == TextRunPositions(rs)
            styles == RunStyleRequests(rs)
        IN  /\ Len(styles) = Len(pos)
            /\ \A k \in 1..Len(styles) :
                 /\ styles[k].startIndex = RunStart(rs, pos[k])
                 /\ styles[k].endIndex = RunEnd(rs, pos[k])
                 /\ styles[k].startIndex < styles[k].endIndex
                 /\ styles[k].startIndex =
                        IF k = 1 THEN 0 ELSE styles[k - 1].endIndex
            /\ Len(styles) > 0 =>
                 styles[Len(styles)].endIndex = Len(requests[1].text)

\* Three runs, the middle one empty, the outer ones with text.
C15_Witness ==
    /\ RunPath
    /\ Len(element.textRuns) = 3
    /\ Len(element.textRuns[1].text) = 2
    /\ Len(element.textRuns[2].text) = 0
    /\ Len(element.textRuns[3].text) = 1
    /\ Len(RunStyleRequests(element.textRuns)) = 2
    /\ RunStyleRequests(element.textRuns)[2].startIndex = 2
    /\ RunStyleRequests(element.textRuns)[2].endIndex = 3

\* The style requests for the structural trailing character of the run list rs.
TrailingStyleRequests(rs) ==
    { k \in 1..Len(requests) : IsTrailingStyle(requests[k], SumLen(rs)) }

\* Exactly one style request covers the one position at the total length, and
\* it carries the font size the last run is styled with.
OneTrailingStyleOfLastRun ==
    LET rs == element.textRuns
    IN  /\ Cardinality(TrailingStyleRequests(rs)) = 1
        /\ \A k \in TrailingStyleRequests(rs) :
               requests[k].fontSize = runFontSize(rs[Len(rs)], element)

NoId == 0

FirstSlideId == 1

ExplicitIds == {2, 3}

GeneratedIds == 10

generateObjectId(n) == GeneratedIds + n

ApiRequest(op, objectId, pageObjectId, childrenObjectIds) ==
    [op |-> op, objectId |-> objectId, pageObjectId |-> pageObjectId,
     childrenObjectIds |-> childrenObjectIds]

\* element.objectId || generateObjectId()
objectIdOrGenerated(el, n) ==
    IF el.objectId # NoId
    THEN [id |-> el.objectId, next |-> n]
    ELSE [id |-> generateObjectId(n), next |-> n + 1]

buildFakeShadowRequests(el, slideId, n) ==
    IF ~el.shadow
    THEN [requests |-> <<>>, next |-> n]
    ELSE LET shadowId == generateObjectId(n)
         IN  [requests |->
                  <<ApiRequest("createShape", shadowId, slideId, <<>>),
                    ApiRequest("updateShapeProperties", shadowId, NoId, <<>>)>>,
              next |-> n + 1]

\* The update request is pushed only when the element has a property to set.
propertyRequests(op, el, id) ==
    IF el.styled THEN <<ApiRequest(op, id, NoId, <<>>)>> ELSE <<>>

\* buildTextContentRequests, reduced to the insert of a non-empty text.
textInsertRequests(el, id) ==
    IF el.hasText THEN <<ApiRequest("insertText", id, NoId, <<>>)>> ELSE <<>>

buildTextRequests(el, slideId, n) ==
    LET shape  == objectIdOrGenerated(el, n)
        shadow == IF el.shadow /\ el.background
                  THEN buildFakeShadowRequests(el, slideId, shape.next)
                  ELSE [requests |-> <<>>, next |-> shape.next]
    IN  [requests |-> shadow.requests
                      \o <<ApiRequest("createShape", shape.id, slideId, <<>>)>>
                      \o propertyRequests("updateShapeProperties", el, shape.id)
                      \o textInsertRequests(el, shape.id),
         next |-> shadow.next]

buildShapeRequests(el, slideId, n) ==
    LET shape  == objectIdOrGenerated(el, n)
        shadow == buildFakeShadowRequests(el, slideId, shape.next)
    IN  [requests |-> shadow.requests
                      \o <<ApiRequest("createShape", shape.id, slideId, <<>>)>>
                      \o propertyRequests("updateShapeProperties", el, shape.id)
                      \o textInsertRequests(el, shape.id),
         next |-> shadow.next]

\* Google-hosted image URLs are handed to the second phase.
needsSlidesAppRouting(el) == el.url = "google"

buildImageRequests(el, slideId, n) ==
    LET image == objectIdOrGenerated(el, n)
    IN  IF needsSlidesAppRouting(el)
        THEN [requests |-> <<>>, objectId |-> image.id, isDeferred |-> TRUE,
              next |-> image.next]
        ELSE [requests |->
                  <<ApiRequest("createImage", image.id, slideId, <<>>)>>
                  \o propertyRequests("updateImageProperties", el, image.id),
              objectId |-> image.id, isDeferred |-> FALSE, next |-> image.next]

\* A straight line: connector is null.
straightLineRequests(el, slideId, n) ==
    LET line == objectIdOrGenerated(el, n)
    IN  [requests |->
             <<ApiRequest("createLine", line.id, slideId, <<>>)>>
             \o propertyRequests("updateLineProperties", el, line.id),
         objectId |-> line.id, next |-> line.next]

\* The line ends are left to their defaults (0,0) and (100,100), so both
\* segments of an elbow have length; each is a copy of the element with
\* connector null.
buildElbowAsSegments(el, slideId, n) ==
    LET segment1 == straightLineRequests(el, slideId, n)
        segment2 == straightLineRequests(el, slideId, segment1.next)
    IN  [requests |-> segment1.requests \o segment2.requests,
         next |-> segment2.next]

buildLineRequests(el, slideId, n) ==
    LET line == objectIdOrGenerated(el, n)
    IN  IF el.connector = "elbow"
        THEN LET segments == buildElbowAsSegments(el, slideId, line.next)
             IN  [requests |-> segments.requests, objectId |-> line.id,
                  next |-> segments.next]
        ELSE straightLineRequests(el, slideId, n)

\* requests[0].createShape.objectId, when the first request is a createShape
firstCreateShapeId(rs) ==
    IF Len(rs) > 0 /\ rs[1].op = "createShape" THEN rs[1].objectId ELSE NoId

\* The value returned from the catch block.
BuildFailed(n) == [requests |-> <<>>, objectId |-> NoId, next |-> n]

RECURSIVE buildElementRequests(_, _, _)
RECURSIVE buildGroupChildren(_, _, _)
\* The forEach over element.elements of a group.
buildGroupChildren(children, slideId, n) ==
    IF children = <<>>
    THEN [requests |-> <<>>, groupChildrenIds |-> <<>>, next |-> n]
    ELSE LET childResult == buildElementRequests(Head(children), slideId, n)
             rest == buildGroupChildren(Tail(children), slideId, childResult.next)
         IN  [requests |-> childResult.requests \o rest.requests,
              groupChildrenIds |->
                  IF childResult.objectId # NoId
                  THEN <<childResult.objectId>> \o rest.groupChildrenIds
                  ELSE rest.groupChildrenIds,
              next |-> rest.next]

buildElementRequests(el, slideId, n) ==
    IF el.throws THEN BuildFailed(n)
    ELSE CASE el.type = "text" ->
                LET r == buildTextRequests(el, slideId, n)
                IN  [requests |-> r.requests,
                     objectId |-> firstCreateShapeId(r.requests),
                     next |-> r.next]
           [] el.type = "shape" ->
                LET r == buildShapeRequests(el, slideId, n)
                IN  [requests |-> r.requests,
                     objectId |-> firstCreateShapeId(r.requests),
                     next |-> r.next]
           [] el.type = "image" ->
                LET r == buildImageRequests(el, slideId, n)
                IN  [requests |-> IF r.isDeferred THEN <<>> ELSE r.requests,
                     objectId |-> r.objectId, next |-> r.next]
           [] el.type = "line" ->
                LET r == buildLineRequests(el, slideId, n)
                IN  [requests |-> r.requests, objectId |-> r.objectId,
                     next |-> r.next]
           [] el.type = "group" ->
                LET group == objectIdOrGenerated(el, n)
                    kids  == buildGroupChildren(el.elements, slideId, group.next)
                IN  IF Len(kids.groupChildrenIds) >= 1
                    THEN [requests |-> kids.requests
                              \o <<ApiRequest("createGroup", group.id, NoId,
                                              kids.groupChildrenIds)>>,
                          objectId |-> group.id, next |-> kids.next]
                    ELSE [requests |-> kids.requests, objectId |-> NoId,
                          next |-> kids.next]
           [] OTHER -> [requests |-> <<>>, objectId |-> NoId, next |-> n]

\* slide.elements.sort((a, b) => (a.zIndex || 0) - (b.zIndex || 0)): a stable
\* sort by ascending zIndex.
RECURSIVE insertByZIndex(_, _)
insertByZIndex(el, sorted) ==
    IF sorted = <<>> THEN <<el>>
    ELSE IF el.zIndex < Head(sorted).zIndex
         THEN <<el>> \o sorted
         ELSE <<Head(sorted)>> \o insertByZIndex(el, Tail(sorted))

\* The elements left in document order.
keepDocumentOrder(els) == els

RECURSIVE sortByZIndex(_)
sortByZIndex(els) ==
    IF els = <<>> THEN <<>>
    ELSE insertByZIndex(els[Len(els)], sortByZIndex(DropLast(els)))

\* The forEach over the sorted elements of one slide.
RECURSIVE buildSlideElements(_, _, _)
buildSlideElements(els, slideId, n) ==
    IF els = <<>> THEN [requests |-> <<>>, next |-> n]
    ELSE LET result == buildElementRequests(Head(els), slideId, n)
             rest == buildSlideElements(Tail(els), slideId, result.next)
         IN  [requests |-> result.requests \o rest.requests, next |-> rest.next]

\* The body of json.slides.forEach for the slide at slideIndex (from 0).
buildSlide(slide, slideIndex, firstSlideId, n) ==
    LET slideId == IF slideIndex = 0 THEN firstSlideId ELSE generateObjectId(n)
        n1 == IF slideIndex = 0 THEN n ELSE n + 1
        create == IF slideIndex > 0
                  THEN <<ApiRequest("createSlide", slideId, NoId, <<>>)>>
                  ELSE <<>>
        pageProps == IF slide.background
                     THEN <<ApiRequest("updatePageProperties", slideId, NoId, <<>>)>>
                     ELSE <<>>
        els == buildSlideElements(sortByZIndex(slide.elements), slideId, n1)
    IN  [requests |-> create \o pageProps \o els.requests, next |-> els.next]

RECURSIVE buildSlidesFrom(_, _, _, _)
buildSlidesFrom(slides, slideIndex, firstSlideId, n) ==
    IF slideIndex >= Len(slides) THEN <<>>
    ELSE LET r == buildSlide(slides[slideIndex + 1], slideIndex, firstSlideId, n)
         IN  r.requests \o buildSlidesFrom(slides, slideIndex + 1, firstSlideId, r.next)

buildAllRequests(doc, firstSlideId) ==
    [requests |-> buildSlidesFrom(doc.slides, 0, firstSlideId, 0)]

\* JSON elements of the generation input.
El(type, objectId, zIndex) ==
    [type |-> type, objectId |-> objectId, zIndex |-> zIndex,
     shadow |-> FALSE, background |-> FALSE, styled |-> TRUE, hasText |-> FALSE,
     url |-> "", connector |-> "", throws |-> FALSE, elements |-> <<>>]

TextBox(z) == [El("text", NoId, z) EXCEPT !.hasText = TRUE]

ShadowedTextBox(z) ==
    [El("text", NoId, z) EXCEPT !.hasText = TRUE, !.shadow = TRUE,
                                 !.background = TRUE]

PlainShape(id, z) == [El("shape", id, z) EXCEPT !.styled = FALSE]

ShadowedShape(z) == [El("shape", NoId, z) EXCEPT !.shadow = TRUE]

ThrowingShape(z) == [El("shape", NoId, z) EXCEPT !.throws = TRUE]

UrlImage(z) == [El("image", NoId, z) EXCEPT !.url = "https"]

GoogleImage(z) == [El("image", NoId, z) EXCEPT !.url = "google"]

StraightLine(z) == El("line", NoId, z)

ElbowLine(id, z) == [El("line", id, z) EXCEPT !.connector = "elbow"]

Group(id, z, children) == [El("group", id, z) EXCEPT !.elements = children]

ElementLists ==
    { <<>>,
      <<TextBox(0)>>,
      <<ShadowedTextBox(0), UrlImage(1)>>,
      <<PlainShape(2, 1), ShadowedShape(0)>>,
      <<UrlImage(0), StraightLine(0)>>,
      <<GoogleImage(0), TextBox(1)>>,
      <<ElbowLine(NoId, 0)>>,
      <<ElbowLine(3, 1), PlainShape(2, 0)>>,
      <<ThrowingShape(0), TextBox(1)>>,
      <<TextBox(1), ThrowingShape(0), UrlImage(2)>>,
      <<TextBox(1), StraightLine(0), UrlImage(0)>>,
      <<Group(NoId, 0, <<TextBox(0), UrlImage(0)>>)>>,
      <<Group(2, 0, <<PlainShape(3, 0), StraightLine(0)>>), TextBox(1)>>,
      <<Group(NoId, 0, <<TextBox(0), GoogleImage(0)>>)>>,
      <<Group(NoId, 0, <<ElbowLine(NoId, 0), PlainShape(NoId, 0)>>)>>,
      <<Group(NoId, 0, <<ThrowingShape(0), TextBox(0)>>)>>,
      <<Group(NoId, 0, <<ThrowingShape(0)>>)>>,
      <<Group(NoId, 1, <<Group(NoId, 0, <<TextBox(0), ShadowedShape(0)>>),
                         StraightLine(0)>>),
        UrlImage(0)>> }

DeckSlides ==
    { [background |-> b, elements |-> els] :
          b \in BOOLEAN, els \in ElementLists }

MaxDeckSlides == 2

NoDeck == [slides |-> <<>>]

Decks ==
    {NoDeck} \cup { [slides |-> s] : s \in SeqsUpTo(DeckSlides, MaxDeckSlides) }

NoBatch == [requests |-> <<>>]

BuildInit ==
    /\ genPc = "idle"
    /\ deck = NoDeck
    /\ batch = NoBatch

\* A JSON document is handed to the generator.
LoadDeck ==
    /\ genPc = "idle"
    /\ \E d \in Decks : deck' = d
    /\ genPc' = "loaded"
    /\ UNCHANGED <<batch, textVars, tfVars, colorVars, inheritVars, slideVars, laterVars>>

\* buildAllRequests(json, firstSlideId)
BuildAll ==
    /\ genPc = "loaded"
    /\ batch' = buildAllRequests(deck, FirstSlideId)
    /\ genPc' = "generated"
    /\ UNCHANGED <<deck, textVars, tfVars, colorVars, inheritVars, slideVars, laterVars>>

(***************************************************************************)
(* Properties of the generated request list.                               *)
(***************************************************************************)
Generated == genPc = "generated"

IsCreation(r) ==
    r.op \in {"createShape", "createImage", "createLine", "createGroup",
              "createSlide"}

\* The object ids a request refers to without creating them: the object a
\* property update or a text insert addresses, and the children a createGroup
\* names.
ReferredIds(r) ==
    (IF IsCreation(r) THEN {} ELSE {r.objectId})
        \cup { r.childrenObjectIds[k] : k \in DOMAIN r.childrenObjectIds }

CreatedBefore(rs, i, id) ==
    \E j \in 1..(i - 1) : IsCreation(rs[j]) /\ rs[j].objectId = id

\* C12: in the generated list every request that refers to an object (a
\* property update, a text insert, a createGroup naming a child) comes after
\* the request of the same list that creates the object.  The first slide
\* exists before generation and is not expected to be created.
C12_CreationPrecedesReference ==
    Generated =>
        \A i \in 1..Len(batch.requests) :
            \A id \in ReferredIds(batch.requests[i]) \ {FirstSlideId} :
                CreatedBefore(batch.requests, i, id)

\* The same for everything except the children named by a createGroup.
UpdatesFollowCreation ==
    Generated =>
        \A i \in 1..Len(batch.requests) :
            LET r == batch.requests[i]
            IN  (~IsCreation(r) /\ r.objectId # FirstSlideId)
                    => CreatedBefore(batch.requests, i, r.objectId)

\* A createGroup names a child that no earlier request creates.
GroupHasDeferredChild ==
    /\ Generated
    /\ \E i \in 1..Len(batch.requests) :
           /\ batch.requests[i].op = "createGroup"
           /\ \E k \in DOMAIN batch.requests[i].childrenObjectIds :
                  ~CreatedBefore(batch.requests, i,
                                 batch.requests[i].childrenObjectIds[k])

(***************************************************************************)
(* The transform emitted when an extracted element is created again.       *)
(***************************************************************************)
LinearPart(m) ==
    [scaleX |-> m.scaleX, scaleY |-> m.scaleY, shearX |-> m.shearX,
     shearY |-> m.shearY]

\* buildTransformWithShear: texts, shapes and images.
buildTransformWithShear(el) ==
    LET ct == el.composedTransform
    IN  IF ct.has \cap LinearFields # {}
        THEN [scaleX |-> FieldOr(ct, "scaleX", 0),
              scaleY |-> FieldOr(ct, "scaleY", 0),
              shearX |-> FieldOrZero(ct, "shearX"),
              shearY |-> FieldOrZero(ct, "shearY"),
              translateX |-> RoundDiv(FieldOrZero(ct, "translateX"), ADVANCED_EMU_PER_PT),
              translateY |-> RoundDiv(FieldOrZero(ct, "translateY"), ADVANCED_EMU_PER_PT)]
        ELSE buildTransform(el.x, el.y, el.rotation, el.w, el.h, el.flipH, el.flipV)

\* buildLineRequests, the branch taken when composedTransform and baseSize
\* are present.
lineTransform(el) ==
    LET ct == el.composedTransform
    IN  [scaleX |-> FieldOr(ct, "scaleX", 1),
         scaleY |-> FieldOr(ct, "scaleY", 1),
         shearX |-> FieldOrZero(ct, "shearX"),
         shearY |-> FieldOrZero(ct, "shearY"),
         translateX |-> RoundDiv(FieldOrZero(ct, "translateX"), ADVANCED_EMU_PER_PT),
         translateY |-> RoundDiv(FieldOrZero(ct, "translateY"), ADVANCED_EMU_PER_PT)]

\* buildTableRequests: buildTransform(x, y, 0, w || 400, h || 300)
tableTransform(el) ==
    buildTransform(el.x, el.y, 0, IF el.w = 0 THEN 400 ELSE el.w,
                   IF el.h = 0 THEN 300 ELSE el.h, FALSE, FALSE)

TransformedTypes == {"shape", "line", "table"}

creationTransform(type, el) ==
    CASE type = "shape" -> buildTransformWithShear(el)
      [] type = "line"  -> lineTransform(el)
      [] type = "table" -> tableTransform(el)

\* The groups an element of the regeneration round trip sits in: none or one.
ShallowChains == { gs \in GroupChains : Len(gs) <= 1 }

\* An element is extracted and the transform of its creation request is
\* built from what extraction returned.
ExtractAndBuild ==
    /\ tfOp = "none"
    /\ \E gs \in ShallowChains, t \in RawTransforms, size \in Sizes,
          type \in TransformedTypes :
         LET el == extractElementAdvanced(gs, t, size)
         IN  /\ tfIn' = [type |-> type, element |-> el]
             /\ tfOut' = creationTransform(type, el)
    /\ tfOp' = "regenerate"
    /\ UNCHANGED <<textVars, colorVars, genVars, inheritVars, slideVars, laterVars>>

Regenerated == tfOp = "regenerate"

\* C13: an element that carries its composed matrix is created with exactly
\* that matrix's scaleX, scaleY, shearX and shearY, whatever its type.
C13_CreationUsesComposedMatrix ==
    Regenerated =>
        LinearPart(tfOut) = LinearPart(ReadMatrix(tfIn.element.composedTransform))

\* The same for the types built by buildTransformWithShear only.
ShapeCreationUsesComposedMatrix ==
    (Regenerated /\ tfIn.type = "shape") =>
        LinearPart(tfOut) = LinearPart(ReadMatrix(tfIn.element.composedTransform))

\* A line whose matrix has shears and no scale is created with unit scales.
LineCreatedWithUnitScale ==
    /\ Regenerated
    /\ tfIn.type = "line"
    /\ tfIn.element.composedTransform.has \cap {"scaleX", "scaleY"} = {}
    /\ tfIn.element.composedTransform.has \cap {"shearX", "shearY"} # {}
    /\ tfOut.scaleX = 1

(***************************************************************************)
(* The rotation of directions off the axes and diagonals.                  *)
(***************************************************************************)
\* Values of Math.atan2(shearY, scaleX), in thousandths of a degree.
RawAngles ==
    { -179999, -135000, -90000, -45000, -1000, -15, -6, -5, -4, -1, 0,
      1, 4, 5, 6, 15, 1000, 45000, 90000, 135000, 179994, 179995, 180000 }

\* The rotation part of extractElementAdvanced on one direction.
ExtractRotation ==
    /\ tfOp = "none"
    /\ \E a \in RawAngles :
         /\ tfIn' = [rotationRaw |-> a]
         /\ tfOut' = [rotation100 |-> normalizeRotation(a)]
    /\ tfOp' = "rotation"
    /\ UNCHANGED <<textVars, colorVars, genVars, inheritVars, slideVars, laterVars>>

\* C17: the rotation reported for an extracted element is at least 0 and
\* less than 360 degrees after normalisation and rounding, for every matrix.
C17_RotationInHalfOpenTurn ==
    /\ tfOp \in {"extract", "roundtrip"}
           => (0 <= tfOut.rotation /\ tfOut.rotation < 360)
    /\ tfOp = "rotation"
           => (0 <= tfOut.rotation100 /\ tfOut.rotation100 < 36000)

\* The reported rotation never leaves the closed interval from 0 to 360.
RotationInClosedTurn ==
    /\ tfOp \in {"extract", "roundtrip"}
           => (0 <= tfOut.rotation /\ tfOut.rotation <= 360)
    /\ tfOp = "rotation"
           => (0 <= tfOut.rotation100 /\ tfOut.rotation100 <= 36000)

\* A direction just below the positive x axis is reported as 360 degrees.
RotationRoundsToFullTurn ==
    /\ tfOp = "rotation"
    /\ tfIn.rotationRaw < 0
    /\ tfOut.rotation100 = 36000

(***************************************************************************)
(* inheritMissingRunStyles on its own.  A run is reduced to its font size, *)
(* 0 standing for undefined; the font family is inherited by the same      *)
(* statements.                                                             *)
(***************************************************************************)
MaxStyleRuns == 4

FontSizes == {0, 12, 20}

StyleRunLists == UNION { [1..n -> [fontSize : FontSizes]] : n \in 0..MaxStyleRuns }

NotInherited == [done |-> FALSE, runs |-> <<>>]

InheritInit ==
    /\ styleRuns = <<>>
    /\ styledRuns = NotInherited

InheritRunStyles ==
    /\ ~styledRuns.done
    /\ \E rs \in StyleRunLists :
         /\ styleRuns' = rs
         /\ styledRuns' = [done |-> TRUE, runs |-> inheritMissingRunStyles(rs)]
    /\ UNCHANGED <<textVars, tfVars, colorVars, genVars, slideVars, laterVars>>

\* The positions of the runs that have a font size before inheritance.
Sized(rs) == { j \in 1..Len(rs) : rs[j].fontSize # 0 }

Distance(i, j) == IF i < j THEN j - i ELSE i - j

\* The positions of the sized runs nearest to position i.
NearestSized(rs, i) ==
    { j \in Sized(rs) : \A k \in Sized(rs) : Distance(i, j) <= Distance(i, k) }

\* The sized run a run without font size inherits from: the nearest one
\* before it, or the nearest one after it when none is before it.
InheritanceSource(rs, i) ==
    LET before == { j \in Sized(rs) : j < i }
        after == { j \in Sized(rs) : j > i }
    IN  IF before # {}
        THEN CHOOSE j \in before : \A k \in before : k <= j
        ELSE CHOOSE j \in after : \A k \in after : j <= k

InheritedShape ==
    /\ Len(styledRuns.runs) = Len(styleRuns)
    /\ \A i \in Sized(styleRuns) :
           styledRuns.runs[i].fontSize = styleRuns[i].fontSize
    /\ Sized(styleRuns) = {} =>
           \A i \in 1..Len(styleRuns) : styledRuns.runs[i].fontSize = 0

\* C18 as stated: after inheritance a run that lacked a font size carries the
\* font size of a nearest run, by position, that had one; runs that had one
\* keep it; a font size stays missing only when no run had one.
C18_InheritsFromNearestRun ==
    styledRuns.done =>
        /\ InheritedShape
        /\ \A i \in 1..Len(styleRuns) :
             (i \notin Sized(styleRuns) /\ Sized(styleRuns) # {}) =>
                \E j \in NearestSized(styleRuns, i) :
                    styledRuns.runs[i].fontSize = styleRuns[j].fontSize

\* C18 amended: a run that lacked a font size carries the font size of the
\* nearest run before it that had one, and of the nearest run after it only
\* when no run before it had one; runs that had one keep it; a font size
\* stays missing only when no run had one.
C18_InheritsFromPrecedingRunFirst ==
    styledRuns.done =>
        /\ InheritedShape
        /\ \A i \in 1..Len(styleRuns) :
             (i \notin Sized(styleRuns) /\ Sized(styleRuns) # {}) =>
                styledRuns.runs[i].fontSize =
                    styleRuns[InheritanceSource(styleRuns, i)].fontSize

\* Sizes 12, none, none, 20: the third run is nearer to the fourth and
\* inherits 12 from the first.
C18_Witness ==
    /\ styledRuns.done
    /\ Len(styleRuns) = 4
    /\ styleRuns[1].fontSize = 12
    /\ styleRuns[2].fontSize = 0
    /\ styleRuns[3].fontSize = 0
    /\ styleRuns[4].fontSize = 20
    /\ styledRuns.runs[3].fontSize = 12

(***************************************************************************)
(* extractSlideAdvanced and the control flow of extractElementAdvanced.    *)
(* A page element carries its transform and size as the API returns them;  *)
(* nullFields names the transform fields that are present with the value   *)
(* null (the transform holds 0 for them, which is what arithmetic makes of *)
(* null), and typeThrows says that the extractor of the element's type     *)
(* throws.  A line carries its lineType and lineCategory, "" when the API   *)
(* omits them.  An outcome is either a thrown exception or the list of the *)
(* elements returned (empty for null).                                     *)
(***************************************************************************)
PageEl(objectId, kind, transform, nullFields, size) ==
    [objectId |-> objectId, kind |-> kind, transform |-> transform,
     nullFields |-> nullFields, size |-> size, typeThrows |-> FALSE,
     children |-> <<>>, lineType |-> "", lineCategory |-> ""]

Threw == [threw |-> TRUE, elements |-> <<>>]

Returned(els) == [threw |-> FALSE, elements |-> els]

\* The part of extractElementAdvanced before its try block: the geometry.
\* scaleX and scaleY are taken from the transform as they are when they are
\* not undefined, and toFixed is called on them in the log statement.
geometryThrows(hasParent, el) ==
    ~hasParent /\ el.nullFields \cap {"scaleX", "scaleY"} # {}

extractedElement(el, base) ==
    [type |-> el.kind, objectId |-> el.objectId,
     x |-> base.x, y |-> base.y, w |-> base.w, h |-> base.h,
     rotation |-> base.rotation]

\* The line types whose name includes 'CURVED'.
CurvedLineTypes ==
    {"CURVED_LINE", "CURVED_CONNECTOR_2", "CURVED_CONNECTOR_3",
     "CURVED_CONNECTOR_4", "CURVED_CONNECTOR_5"}

\* isCurved of the callback of children.some: a curved connector, or a
\* freeform line, which has neither a type nor a category.
isCurved(child) ==
    \/ child.lineCategory = "CURVED"
    \/ child.lineType \in CurvedLineTypes
    \/ (child.lineType = "" /\ child.lineCategory = "")

hasCurvedLines(children) ==
    \E i \in 1..Len(children) :
        children[i].kind = "line" /\ isCurved(children[i])

\* The element returned for a group with a curved line, reduced to its type
\* and the group it is to be copied from.
copyGroupElement(el) ==
    [type |-> "copyGroup", objectId |-> el.objectId,
     sourceObjectId |-> el.objectId]

RECURSIVE extractPageElement(_, _, _)
RECURSIVE extractChildren(_, _)
\* children.map(c => extractElementAdvanced(c, transform, ...)).filter(Boolean).flat()
extractChildren(children, transform) ==
    IF children = <<>> THEN Returned(<<>>)
    ELSE LET first == extractPageElement(Head(children), TRUE, transform)
             rest == extractChildren(Tail(children), transform)
         IN  IF first.threw \/ rest.threw THEN Threw
             ELSE Returned(first.elements \o rest.elements)

extractPageElement(el, hasParent, parentTransform) ==
    LET transform == elementTransform(hasParent, parentTransform, el.transform)
        base == extractBase(transform, el.size)
    IN  IF geometryThrows(hasParent, el) THEN Threw
        ELSE \* inside the try block: a throw is caught and null is returned
             IF el.typeThrows THEN Returned(<<>>)
             ELSE CASE el.kind = "group" ->
                         IF hasCurvedLines(el.children)
                         THEN Returned(<<copyGroupElement(el)>>)
                         ELSE LET kids == extractChildren(el.children, transform)
                              IN  IF kids.threw THEN Returned(<<>>) ELSE kids
                    [] el.kind \in {"shape", "image", "line"} ->
                         Returned(<<extractedElement(el, base)>>)
                    [] OTHER -> Returned(<<>>)

\* The forEach of extractSlideAdvanced from element i on, with the zIndex
\* counter.
RECURSIVE extractSlideFrom(_, _, _)
extractSlideFrom(els, i, zIndexCounter) ==
    IF i > Len(els) THEN Returned(<<>>)
    ELSE LET extracted == extractPageElement(els[i], FALSE, EmptyXf)
         IN  IF extracted.threw THEN Threw
             ELSE LET n == Len(extracted.elements)
                      numbered == [k \in 1..n |->
                                      [element |-> extracted.elements[k],
                                       zIndex |-> zIndexCounter + k - 1]]
                      rest == extractSlideFrom(els, i + 1, zIndexCounter + n)
                  IN  IF rest.threw THEN Threw
                      ELSE Returned(numbered \o rest.elements)

extractSlideAdvanced(slide) == extractSlideFrom(slide.pageElements, 1, 0)

\* Page elements.
NoSize == [width |-> 0, height |-> 0]

SomeSize == [width |-> Pt(2), height |-> Pt(4)]

ScaledShape ==
    PageEl("a", "shape",
           Xf({"scaleX", "scaleY", "translateX", "translateY"}, 2, 0, 0, 2, Pt(10), Pt(20)),
           {}, SomeSize)

BareShape == PageEl("b", "shape", EmptyXf, {}, NoSize)

MovedImage ==
    PageEl("c", "image", Xf({"translateX", "translateY"}, 0, 0, 0, 0, Pt(10), Pt(20)),
           {}, SomeSize)

TurnedShape ==
    PageEl("d", "shape",
           Xf({"shearX", "shearY", "translateX", "translateY"}, 0, 1, -1, 0, Pt(10), Pt(20)),
           {}, SomeSize)

NullScaleShape ==
    PageEl("e", "shape",
           Xf({"scaleX", "scaleY", "translateX"}, 0, 0, 0, 1, Pt(10), 0),
           {"scaleX"}, SomeSize)

NullShearShape ==
    PageEl("f", "shape",
           Xf({"scaleX", "scaleY", "shearX"}, 1, 0, 0, 1, 0, 0),
           {"shearX"}, NoSize)

FailingTypeShape == [BareShape EXCEPT !.objectId = "g", !.typeThrows = TRUE]

PageGroup(objectId, children) ==
    [PageEl(objectId, "group", EmptyXf, {}, NoSize) EXCEPT !.children = children]

PageLine(objectId, lineType, lineCategory) ==
    [PageEl(objectId, "line",
            Xf({"scaleX", "scaleY", "translateX", "translateY"}, 1, 0, 0, 1, Pt(10), Pt(20)),
            {}, SomeSize)
        EXCEPT !.lineType = lineType, !.lineCategory = lineCategory]

StraightPageLine == PageLine("j", "STRAIGHT_CONNECTOR_1", "STRAIGHT")

CurvedPageLine == PageLine("k", "CURVED_CONNECTOR_2", "CURVED")

FreeformPageLine == PageLine("l", "", "")

PageElements ==
    { ScaledShape, BareShape, MovedImage, TurnedShape, NullScaleShape,
      NullShearShape, FailingTypeShape,
      PageGroup("h", <<FailingTypeShape, ScaledShape>>),
      PageGroup("i", <<NullScaleShape, MovedImage>>),
      StraightPageLine, CurvedPageLine, FreeformPageLine,
      PageGroup("m", <<PageLine("p", "CURVED_CONNECTOR_2", "CURVED"), ScaledShape>>),
      PageGroup("n", <<PageGroup("o", <<PageLine("q", "", "")>>),
                       StraightPageLine>>) }

MaxPageElements == 3

Pages ==
    { [pageElements |-> els] :
        els \in UNION { [1..n -> PageElements] : n \in 0..MaxPageElements } }

NoPage == [pageElements |-> <<>>]

NotExtracted == [done |-> FALSE, threw |-> FALSE, elements |-> <<>>]

SlideInit ==
    /\ page = NoPage
    /\ slideData = NotExtracted

\* extractSlideAdvanced(slide)
ExtractSlide ==
    /\ ~slideData.done
    /\ \E p \in Pages :
         /\ page' = p
         /\ slideData' = [done |-> TRUE,
                          threw |-> extractSlideAdvanced(p).threw,
                          elements |-> extractSlideAdvanced(p).elements]
    /\ UNCHANGED <<textVars, tfVars, colorVars, genVars, inheritVars, laterVars>>

(***************************************************************************)
(* Properties of slide extraction.                                         *)
(***************************************************************************)
SlideExtracted == slideData.done

\* What the elements from position i on return when each is extracted on its
\* own, one after the other; an element whose extraction fails adds nothing.
RECURSIVE ExtractedAlone(_, _)
ExtractedAlone(els, i) ==
    IF i > Len(els) THEN <<>>
    ELSE extractPageElement(els[i], FALSE, EmptyXf).elements
            \o ExtractedAlone(els, i + 1)

\* C19: a failure in one element does not abort its siblings: the call
\* completes and its output holds, in order, what every element returns when
\* it is extracted on its own.
C19_FailureDoesNotAbortSiblings ==
    SlideExtracted =>
        /\ ~slideData.threw
        /\ [k \in 1..Len(slideData.elements) |-> slideData.elements[k].element]
               = ExtractedAlone(page.pageElements, 1)

\* The element at position i fails before its try block while another
\* element of the slide extracts on its own, and the call is aborted.
SiblingLostToFailure ==
    /\ SlideExtracted
    /\ slideData.threw
    /\ ExtractedAlone(page.pageElements, 1) # <<>>

\* Failures inside the try block are isolated.
CaughtFailuresAreIsolated ==
    (SlideExtracted /\ \A i \in 1..Len(page.pageElements) :
                           ~geometryThrows(FALSE, page.pageElements[i]))
        => /\ ~slideData.threw
           /\ [k \in 1..Len(slideData.elements) |-> slideData.elements[k].element]
                  = ExtractedAlone(page.pageElements, 1)

\* The transform with every omitted field replaced by its documented default.
DocumentedTransform(t) ==
    LET m == ReadMatrix(t)
    IN  FullXf(m.scaleX, m.shearX, m.shearY, m.scaleY, m.translateX, m.translateY)

\* Extraction of the top-level element el does not throw, and a shape or an
\* image gets the geometry computed from the documented defaults.
DegradesToDefaults(el) ==
    LET r == extractPageElement(el, FALSE, EmptyXf)
    IN  /\ ~r.threw
        /\ (el.kind \in {"shape", "image"} /\ ~el.typeThrows) =>
               r.elements = <<extractedElement(el,
                                 extractBase(DocumentedTransform(el.transform), el.size))>>

\* C20: extracting an element whose transform or size has missing or
\* inconsistent fields never throws, and the element gets the geometry
\* computed from the documented defaults.
C20_MalformedGeometryNeverThrows ==
    SlideExtracted =>
        /\ ~slideData.threw
        /\ \A i \in 1..Len(page.pageElements) :
               DegradesToDefaults(page.pageElements[i])

\* The same for elements whose fields are missing but never null.
MissingGeometryNeverThrows ==
    (SlideExtracted /\ \A i \in 1..Len(page.pageElements) :
                           page.pageElements[i].nullFields = {})
        => /\ ~slideData.threw
           /\ \A i \in 1..Len(page.pageElements) :
                  DegradesToDefaults(page.pageElements[i])

\* A top-level element whose scaleX is null makes the extraction throw.
NullScaleThrows ==
    /\ SlideExtracted
    /\ slideData.threw
    /\ \E i \in 1..Len(page.pageElements) :
           "scaleX" \in page.pageElements[i].nullFields

\* What the builders return for the elements from position i on, counted,
\* when each is built on its own.
RECURSIVE RequestsBuiltAlone(_, _)
RequestsBuiltAlone(els, i) ==
    IF i > Len(els) THEN 0
    ELSE Len(buildElementRequests(els[i], FirstSlideId, 0).requests)
            + RequestsBuiltAlone(els, i + 1)

RECURSIVE RequestsExpected(_, _)
RequestsExpected(slides, i) ==
    IF i > Len(slides) THEN 0
    ELSE (IF i > 1 THEN 1 ELSE 0)
            + (IF slides[i].background THEN 1 ELSE 0)
            + RequestsBuiltAlone(slides[i].elements, 1)
            + RequestsExpected(slides, i + 1)

\* On the generation side an element whose builder throws takes nothing from
\* its siblings: the list holds as many requests as the elements yield when
\* each is built on its own.
BuildIsolatesFailures ==
    Generated => Len(batch.requests) = RequestsExpected(deck.slides, 1)

(***************************************************************************)
(* Curved and freeform outlines.                                           *)
(***************************************************************************)
\* The curved or freeform lines of a page tree, each with the group that
\* holds it ("" at the top level).
RECURSIVE CurvedOutlines(_, _)
CurvedOutlines(els, group) ==
    UNION { IF els[i].kind = "line" /\ isCurved(els[i])
            THEN {[line |-> els[i].objectId, group |-> group]}
            ELSE IF els[i].kind = "group"
                 THEN CurvedOutlines(els[i].children, els[i].objectId)
                 ELSE {} : i \in 1..Len(els) }

\* The JSON element the generator receives for an extracted element.
AsJsonElement(e) == El(e.type, NoId, 0)

\* The generator rebuilds the extracted element as a vector line.
RebuiltAsLine(e) ==
    \E k \in 1..Len(buildElementRequests(AsJsonElement(e), FirstSlideId, 0).requests) :
        buildElementRequests(AsJsonElement(e), FirstSlideId, 0).requests[k].op
            = "createLine"

\* The curved line c is emitted as the fallback: the output holds a copyGroup
\* for the group it sits in, and no element of the output with the line's
\* object id is rebuilt as a line.
EmittedAsFallback(c) ==
    /\ \E k \in 1..Len(slideData.elements) :
           /\ slideData.elements[k].element.type = "copyGroup"
           /\ slideData.elements[k].element.sourceObjectId = c.group
    /\ \A k \in 1..Len(slideData.elements) :
           slideData.elements[k].element.objectId = c.line
               => ~RebuiltAsLine(slideData.elements[k].element)

\* C21: every curved or freeform line of the page, at the top level or
\* inside a group, is emitted as the copyGroup fallback, and generation
\* builds no line for it.
C21_CurvedOutlinesDegrade ==
    SlideExtracted =>
        \A c \in CurvedOutlines(page.pageElements, "") : EmittedAsFallback(c)

\* A curved line at the top level of the page is extracted as a line and
\* generation creates a line for it.
TopLevelCurvedLineRebuilt ==
    /\ SlideExtracted
    /\ ~slideData.threw
    /\ \E k \in 1..Len(slideData.elements) :
           /\ slideData.elements[k].element.type = "line"
           /\ slideData.elements[k].element.objectId = CurvedPageLine.objectId
           /\ RebuiltAsLine(slideData.elements[k].element)

\* Curved lines that sit in a group are emitted as the fallback whenever the
\* extraction of the slide completes.
GroupedCurvedOutlinesDegrade ==
    (SlideExtracted /\ ~slideData.threw) =>
        \A c \in CurvedOutlines(page.pageElements, "") :
            c.group # "" => EmittedAsFallback(c)

(***************************************************************************)
(* Placeholder style inheritance: buildPlaceholderIndex,                   *)
(* resolveInheritedProperty and the style part of extractShapeAdvanced.    *)
(* Every value is a string; Undefined stands for a property that is absent *)
(* and Null for null.  A text style holds the four properties fontSize,    *)
(* fontFamily, color and bold; the shape has one text run with content.    *)
(***************************************************************************)
Undefined == "undefined"

Null == "null"

StyleProperties == {"fontSize", "fontFamily", "color", "bold"}

TextStyle(fontSize, fontFamily, color, bold) ==
    [fontSize |-> fontSize, fontFamily |-> fontFamily, color |-> color,
     bold |-> bold]

NoStyle == TextStyle(Undefined, Undefined, Undefined, Undefined)

\* a || b
OrElse(a, b) == IF a \in {Undefined, Null, "false", ""} THEN b ELSE a

\* The key of a placeholder in _placeholderStyles.
masterKey(type) == <<"master", "", type>>

layoutKey(layoutObjectId, type) == <<"layout", layoutObjectId, type>>

\* The forEach over the placeholders of one page: each writes its entry,
\* a later one over an earlier one with the same key.
RECURSIVE indexPlaceholders(_, _, _)
indexPlaceholders(index, scope, els) ==
    IF els = <<>> THEN index
    ELSE LET key == <<scope[1], scope[2], Head(els).type>>
             written == [k \in DOMAIN index \cup {key} |->
                            IF k = key THEN Head(els).style ELSE index[k]]
         IN  indexPlaceholders(written, scope, Tail(els))

RECURSIVE indexMasters(_, _)
indexMasters(index, masters) ==
    IF masters = <<>> THEN index
    ELSE indexMasters(
             indexPlaceholders(index, <<"master", "">>, Head(masters).pageElements),
             Tail(masters))

RECURSIVE indexLayouts(_, _)
indexLayouts(index, layouts) ==
    IF layouts = <<>> THEN index
    ELSE indexLayouts(
             indexPlaceholders(index, <<"layout", Head(layouts).objectId>>,
                               Head(layouts).pageElements),
             Tail(layouts))

NoPlaceholderStyles == [k \in {} |-> NoStyle]

buildPlaceholderIndex(pres) ==
    indexLayouts(indexMasters(NoPlaceholderStyles, pres.masters), pres.layouts)

\* The hardcoded defaults.
defaults == TextStyle("12", "Arial", "#000000", "false")

\* resolveInheritedProperty(element, property, layoutObjectId), with the
\* module state it reads.
resolveInheritedProperty(index, rawMode, el, property, layoutObjectId) ==
    LET explicitValue == el.style[property]
    IN  IF explicitValue # Undefined /\ explicitValue # Null THEN explicitValue
        ELSE IF rawMode THEN Null
        ELSE IF el.placeholder # ""
                  /\ layoutObjectId # ""
                  /\ layoutKey(layoutObjectId, el.placeholder) \in DOMAIN index
                  /\ index[layoutKey(layoutObjectId, el.placeholder)][property]
                         # Undefined
             THEN index[layoutKey(layoutObjectId, el.placeholder)][property]
        ELSE IF el.placeholder # ""
                  /\ masterKey(el.placeholder) \in DOMAIN index
                  /\ index[masterKey(el.placeholder)][property] # Undefined
             THEN index[masterKey(el.placeholder)][property]
        ELSE defaults[property]

\* firstRunStyle of extractTextAdvanced for the shape's run: the color is
\* '#000000' when the run has no foreground color.
firstRunStyle(style) ==
    [style EXCEPT !.color = IF style.color # Undefined THEN style.color
                            ELSE "#000000"]

\* The style properties extractShapeAdvanced writes into its result
\* (resolveThemeColor returns a '#' color as it is and '#000000' for null).
extractShapeStyle(index, rawMode, el, layoutId) ==
    LET textStyle == firstRunStyle(el.style)
        resolvedFontSize ==
            OrElse(textStyle.fontSize,
                   resolveInheritedProperty(index, rawMode, el, "fontSize", layoutId))
        resolvedFontFamily ==
            OrElse(textStyle.fontFamily,
                   resolveInheritedProperty(index, rawMode, el, "fontFamily", layoutId))
        resolvedColor ==
            OrElse(textStyle.color,
                   resolveInheritedProperty(index, rawMode, el, "color", layoutId))
        resolvedBold ==
            IF textStyle.bold # Undefined THEN textStyle.bold
            ELSE resolveInheritedProperty(index, rawMode, el, "bold", layoutId)
    IN  IF el.shapeType = "TEXT_BOX"
        THEN TextStyle(OrElse(resolvedFontSize, "12"),
                       OrElse(resolvedFontFamily, "Arial"),
                       OrElse(OrElse(resolvedColor, "#000000"), "#000000"),
                       OrElse(resolvedBold, "false"))
        ELSE TextStyle(resolvedFontSize, resolvedFontFamily,
                       OrElse(resolvedColor, "#000000"), Undefined)

\* Inputs: placeholder styles, masters, layouts, shapes.
PlaceholderTextStyles ==
    { NoStyle,
      TextStyle("24", "Roboto", "#ff0000", "true"),
      TextStyle("18", Undefined, Undefined, Undefined) }

Placeholder(type, style) == [type |-> type, style |-> style]

Masters ==
    { [objectId |-> id, pageElements |-> <<Placeholder("TITLE", st)>>] :
          id \in {"m1"}, st \in PlaceholderTextStyles }

OtherMaster ==
    [objectId |-> "m2",
     pageElements |->
         <<Placeholder("TITLE", TextStyle("40", "Lora", "#00ff00", "true"))>>]

Layouts ==
    { [objectId |-> "l1", pageElements |-> <<Placeholder("TITLE", st)>>] :
          st \in PlaceholderTextStyles }
        \cup {[objectId |-> "l1", pageElements |-> <<>>]}

ShapeTextStyles ==
    { NoStyle,
      TextStyle("32", Undefined, Undefined, "false"),
      TextStyle(Undefined, "Georgia", "#0000ff", Undefined) }

StyledShapes ==
    { [shapeType |-> t, placeholder |-> ph, style |-> st] :
          t \in {"TEXT_BOX", "RECTANGLE"}, ph \in {"", "TITLE"},
          st \in ShapeTextStyles }

\* A presentation with the slide whose shape is extracted; the slide names
\* its layout and its master.
StyleDocs ==
    { [masters |-> ms, layouts |-> <<l>>,
       slide |-> [layoutObjectId |-> "l1", masterObjectId |-> "m1"],
       shape |-> sh, rawMode |-> raw] :
          ms \in { <<m>> : m \in Masters } \cup { <<m, OtherMaster>> : m \in Masters },
          l \in Layouts, sh \in StyledShapes, raw \in BOOLEAN }

NoStyleDoc ==
    [masters |-> <<>>, layouts |-> <<>>,
     slide |-> [layoutObjectId |-> "", masterObjectId |-> ""],
     shape |-> [shapeType |-> "", placeholder |-> "", style |-> NoStyle],
     rawMode |-> FALSE]

NoStyleOut == [done |-> FALSE, style |-> NoStyle]

StyleInit ==
    /\ placeholderStyles = NoPlaceholderStyles
    /\ extractionRawMode = FALSE
    /\ styleDoc = NoStyleDoc
    /\ styleOut = NoStyleOut

\* extractPresentationAdvanced(id, {rawMode}) for the styles of one shape:
\* the placeholder index is built or cleared, the raw mode flag is stored and
\* the shape is extracted.
ExtractShapeStyle ==
    /\ ~styleOut.done
    /\ \E d \in StyleDocs :
         LET index == IF ~d.rawMode THEN buildPlaceholderIndex(d)
                      ELSE NoPlaceholderStyles
         IN  /\ styleDoc' = d
             /\ placeholderStyles' = index
             /\ extractionRawMode' = d.rawMode
             /\ styleOut' = [done |-> TRUE,
                             style |-> extractShapeStyle(index, d.rawMode, d.shape,
                                                         d.slide.layoutObjectId)]
    /\ UNCHANGED <<textVars, tfVars, colorVars, genVars, inheritVars, slideVars,
                   bgVars, runVars, lockVars>>

(***************************************************************************)
(* Properties of placeholder style inheritance.                            *)
(***************************************************************************)
StyleExtracted == styleOut.done

\* The style of the placeholder of the given type on the page with the given
\* object id, NoStyle when there is none.
PlaceholderStyleOn(pages, objectId, type) ==
    IF \E i \in 1..Len(pages) :
           /\ pages[i].objectId = objectId
           /\ \E j \in 1..Len(pages[i].pageElements) :
                  pages[i].pageElements[j].type = type
    THEN LET i == CHOOSE i \in 1..Len(pages) : pages[i].objectId = objectId
             j == CHOOSE j \in 1..Len(pages[i].pageElements) :
                      pages[i].pageElements[j].type = type
         IN  pages[i].pageElements[j].style
    ELSE NoStyle

FirstExplicit(values) ==
    LET set == { i \in 1..Len(values) : values[i] \notin {Undefined, Null} }
    IN  values[CHOOSE i \in set : \A j \in set : i <= j]

\* The value the chain element, layout placeholder, master placeholder,
\* default gives property p of the shape of document d.
InheritedValue(d, p) ==
    FirstExplicit(
        << d.shape.style[p],
           PlaceholderStyleOn(d.layouts, d.slide.layoutObjectId,
                              d.shape.placeholder)[p],
           PlaceholderStyleOn(d.masters, d.slide.masterObjectId,
                              d.shape.placeholder)[p],
           defaults[p] >>)

\* C22: outside raw mode every style property of the shape resolves to the
\* first explicit non-null value of the chain slide element, placeholder of
\* the slide's layout, placeholder of the slide's master, hardcoded default.
C22_PlaceholderChainResolves ==
    (StyleExtracted /\ ~styleDoc.rawMode) =>
        \A p \in StyleProperties : styleOut.style[p] = InheritedValue(styleDoc, p)

\* The shape has no color of its own, the placeholder of its layout has one,
\* and the shape gets black.
LayoutColorNotInherited ==
    /\ StyleExtracted
    /\ ~styleDoc.rawMode
    /\ styleDoc.shape.placeholder = "TITLE"
    /\ styleDoc.shape.style.color = Undefined
    /\ InheritedValue(styleDoc, "color") = "#ff0000"
    /\ styleOut.style.color = "#000000"

\* The shape gets the font size of the placeholder of a master that is not
\* the master of its slide.
OtherMasterInherited ==
    /\ StyleExtracted
    /\ ~styleDoc.rawMode
    /\ Len(styleDoc.masters) = 2
    /\ InheritedValue(styleDoc, "fontSize") = "12"
    /\ styleOut.style.fontSize = "40"

\* With one master, font size and font family follow the chain, and so does
\* the weight of a text box.
FontFollowsChainWithOneMaster ==
    (StyleExtracted /\ ~styleDoc.rawMode /\ Len(styleDoc.masters) = 1) =>
        /\ \A p \in {"fontSize", "fontFamily"} :
               styleOut.style[p] = InheritedValue(styleDoc, p)
        /\ styleDoc.shape.shapeType = "TEXT_BOX" =>
               styleOut.style.bold = InheritedValue(styleDoc, "bold")

\* The explicit value of property p of the shape, or the hardcoded default.
ExplicitOrDefault(d, p) == FirstExplicit(<<d.shape.style[p], defaults[p]>>)

\* C23: in raw mode every style property of the shape resolves to the
\* shape's explicit value or, failing that, to the hardcoded default; values
\* of layout and master placeholders are never used.
C23_RawModeExplicitOrDefault ==
    (StyleExtracted /\ styleDoc.rawMode) =>
        \A p \in StyleProperties :
            styleOut.style[p] = ExplicitOrDefault(styleDoc, p)

\* In raw mode a shape that is not a text box and has no font size of its
\* own gets null for it.
RawShapeFontSizeNull ==
    /\ StyleExtracted
    /\ styleDoc.rawMode
    /\ styleDoc.shape.shapeType = "RECTANGLE"
    /\ styleDoc.shape.style.fontSize = Undefined
    /\ styleOut.style.fontSize = Null

\* In raw mode the index is empty, and the result is what the raw mode flag
\* gives with the index of the presentation in place: no placeholder value
\* is used.  A text box gets explicit values or defaults throughout.
RawModeUsesNoPlaceholder ==
    (StyleExtracted /\ styleDoc.rawMode) =>
        /\ placeholderStyles = NoPlaceholderStyles
        /\ extractionRawMode
        /\ styleOut.style
               = extractShapeStyle(buildPlaceholderIndex(styleDoc), TRUE,
                                   styleDoc.shape, styleDoc.slide.layoutObjectId)
        /\ styleDoc.shape.shapeType = "TEXT_BOX" =>
               \A p \in StyleProperties :
                   styleOut.style[p] = ExplicitOrDefault(styleDoc, p)

(***************************************************************************)
(* Slide backgrounds: isBackgroundShape, extractBackgroundFromShapes,      *)
(* buildBackgroundIndex and resolveSlideBackground.  Lengths are in points *)
(* (12700 EMU).  A fill is absent (NoFill), not rendered, a picture, or a  *)
(* solid fill, which is written as its hex color.                          *)
(***************************************************************************)
\* _pageWidth, 9144000 EMU
pageWidth == 720

\* _pageHeight, 5143500 EMU
pageHeight == 405

NoFill == ""

\* extractFillAdvanced for a fill without a theme color
fillColor(fill) ==
    IF fill \in {NoFill, "NOT_RENDERED", "picture"} THEN "transparent" ELSE fill

\* The dimensions cover nine tenths of the page in area.
isBackgroundShapeByArea(el) ==
    /\ el.kind = "shape"
    /\ 10 * (el.width * Abs(el.scaleX)) * (el.height * Abs(el.scaleY))
           >= 9 * pageWidth * pageHeight
    /\ 10 * Abs(el.x) < pageWidth
    /\ 10 * Abs(el.y) < pageHeight

isBackgroundShape(el) ==
    /\ el.kind = "shape"
    /\ 10 * (el.width * Abs(el.scaleX)) >= 9 * pageWidth
    /\ 10 * (el.height * Abs(el.scaleY)) >= 9 * pageHeight
    /\ 10 * Abs(el.x) < pageWidth
    /\ 10 * Abs(el.y) < pageHeight

\* The shape is a background shape with a fill that gives a color.
givesBackground(el) ==
    /\ isBackgroundShape(el)
    /\ el.fill # NoFill
    /\ el.fill # "NOT_RENDERED"
    /\ fillColor(el.fill) # "transparent"

\* NoColor stands for null.
extractBackgroundFromShapes(pageElements) ==
    IF \E i \in 1..Len(pageElements) : givesBackground(pageElements[i])
    THEN LET first == CHOOSE i \in 1..Len(pageElements) :
                          /\ givesBackground(pageElements[i])
                          /\ \A j \in 1..(i - 1) : ~givesBackground(pageElements[j])
         IN  fillColor(pageElements[first].fill)
    ELSE NoColor

\* The entry of the first master.
masterBackground(masters) ==
    IF masters = <<>> THEN NoColor
    ELSE LET master == masters[1]
             fromFill == IF master.fill # NoFill /\ master.fill # "NOT_RENDERED"
                         THEN fillColor(master.fill) ELSE NoColor
             shapeBg == extractBackgroundFromShapes(master.pageElements)
         IN  IF fromFill \in {NoColor, "transparent"} /\ shapeBg # NoColor
             THEN shapeBg ELSE fromFill

\* The entry of one layout.
layoutBackground(layout) ==
    LET fromFill == IF layout.fill \notin {NoFill, "NOT_RENDERED", "INHERIT"}
                       /\ fillColor(layout.fill) # "transparent"
                    THEN fillColor(layout.fill) ELSE NoColor
    IN  IF fromFill # NoColor THEN fromFill
        ELSE extractBackgroundFromShapes(layout.pageElements)

\* _backgroundIndex: the master entry and the entries of the layouts by
\* position; NoColor stands for a missing entry.
buildBackgroundIndex(pres) ==
    [master |-> masterBackground(pres.masters),
     layouts |-> [i \in 1..Len(pres.layouts) |-> layoutBackground(pres.layouts[i])]]

\* resolveSlideBackground(slide) for a page fill without a theme color, with
\* the index it reads; layout is the position of the slide's layout, 0 when
\* the slide names none.
backgroundOfSlide(index, slide) ==
    IF slide.fill \notin {NoFill, "NOT_RENDERED", "picture"} THEN slide.fill
    ELSE IF extractBackgroundFromShapes(slide.pageElements) # NoColor
         THEN extractBackgroundFromShapes(slide.pageElements)
    ELSE IF slide.layout \in DOMAIN index.layouts
              /\ index.layouts[slide.layout] \notin {NoColor, "transparent"}
         THEN index.layouts[slide.layout]
    ELSE IF index.master \notin {NoColor, "transparent"} THEN index.master
    ELSE "#ffffff"

\* Inputs.
BgShape(width, height, scaleX, x, fill) ==
    [kind |-> "shape", width |-> width, height |-> height,
     scaleX |-> scaleX, scaleY |-> 1, x |-> x, y |-> 0, fill |-> fill]

\* Full page; nine tenths of each dimension; twice as wide and half as high;
\* a quarter of the page.
BgShapeSizes == {<<720, 405>>, <<648, 365>>, <<1440, 203>>, <<360, 203>>}

BgShapes ==
    { BgShape(sz[1], sz[2], 1, x, fill) :
          sz \in BgShapeSizes, x \in {0, 72}, fill \in {"#ff0000", "NOT_RENDERED"} }
        \cup { BgShape(360, 405, -2, 0, "#0000ff"),
               [BgShape(720, 405, 1, 0, "#0000ff") EXCEPT !.kind = "image"] }

MaxBgShapes == 2

BgPage(fill, pageElements) == [fill |-> fill, pageElements |-> pageElements]

\* The masters and layouts of the presentation: none, or one with a page
\* fill, or one with a background shape.
BgParents ==
    { <<>>, <<BgPage("#111111", <<>>)>>,
      <<BgPage("INHERIT", <<BgShape(720, 405, 1, 0, "#222222")>>)>> }

BgDocs ==
    { [masters |-> ms, layouts |-> ls,
       slide |-> [fill |-> f, layout |-> 1, pageElements |-> els]] :
          ms \in BgParents \ {<<>>}, ls \in BgParents,
          f \in {NoFill, "#abcdef", "NOT_RENDERED"},
          els \in UNION { [1..n -> BgShapes] : n \in 0..MaxBgShapes } }

NoBgDoc ==
    [masters |-> <<>>, layouts |-> <<>>,
     slide |-> [fill |-> NoFill, layout |-> 0, pageElements |-> <<>>]]

BackgroundInit ==
    /\ backgroundIndex = [master |-> NoColor, layouts |-> <<>>]
    /\ bgDoc = NoBgDoc
    /\ bgOut = NoColor

\* buildBackgroundIndex(presentation), then resolveSlideBackground(slide)
\* for a slide of the presentation.
ExtractBackground ==
    /\ bgOut = NoColor
    /\ \E d \in BgDocs :
         /\ bgDoc' = d
         /\ backgroundIndex' = buildBackgroundIndex(d)
         /\ bgOut' = backgroundOfSlide(buildBackgroundIndex(d), d.slide)
    /\ UNCHANGED <<textVars, tfVars, colorVars, genVars, inheritVars, slideVars,
                   styleVars, runVars, lockVars>>

(***************************************************************************)
(* Properties of background resolution.                                    *)
(***************************************************************************)
BackgroundResolved == bgOut # NoColor

NoExplicitPageFill == bgDoc.slide.fill \in {NoFill, "NOT_RENDERED"}

\* The colors of the shapes of the slide that fulfil the test and have a
\* rendered solid fill, in page order.
BackgroundFills(IsBackground(_)) ==
    LET els == bgDoc.slide.pageElements
        usable(el) == IsBackground(el) /\ el.fill \notin {NoFill, "NOT_RENDERED"}
    IN  [k \in 1..Len(SelectSeq(els, usable)) |-> SelectSeq(els, usable)[k].fill]

\* What the layout, the master and the default give.
InheritedBackground ==
    backgroundOfSlide(backgroundIndex, [bgDoc.slide EXCEPT !.pageElements = <<>>])

CoversEachDimension(el) ==
    /\ el.kind = "shape"
    /\ 10 * el.width * Abs(el.scaleX) >= 9 * pageWidth
    /\ 10 * el.height * Abs(el.scaleY) >= 9 * pageHeight
    /\ -pageWidth < 10 * el.x /\ 10 * el.x < pageWidth
    /\ -pageHeight < 10 * el.y /\ 10 * el.y < pageHeight

WideShapeIsNoBackground ==
    /\ BackgroundResolved
    /\ NoExplicitPageFill
    /\ bgDoc.slide.pageElements = <<BgShape(1440, 203, 1, 0, "#ff0000")>>
    /\ bgOut # "#ff0000"

(***************************************************************************)
(* Z-order of the generated requests.                                      *)
(***************************************************************************)
\* The operations of the creation requests of a request list, in order.
CreationOps(rs) ==
    LET created == SelectSeq(rs, IsCreation)
    IN  [k \in 1..Len(created) |-> created[k].op]

\* The number of elements of els that come before element i by zIndex, or
\* by position when the zIndex is the same.
ZRank(els, i) ==
    Cardinality({ j \in 1..Len(els) :
                    \/ els[j].zIndex < els[i].zIndex
                    \/ (els[j].zIndex = els[i].zIndex /\ j < i) })

\* The elements by ascending zIndex, equal ones in document order.
InZOrder(els) ==
    [r \in 1..Len(els) |-> els[CHOOSE i \in 1..Len(els) : ZRank(els, i) = r - 1]]

RECURSIVE CreationOpsOfElements(_)
CreationOpsOfElements(els) ==
    IF els = <<>> THEN <<>>
    ELSE CreationOps(buildElementRequests(Head(els), FirstSlideId, 0).requests)
            \o CreationOpsOfElements(Tail(els))

RECURSIVE CreationOpsInZOrder(_, _)
CreationOpsInZOrder(slides, i) ==
    IF i > Len(slides) THEN <<>>
    ELSE (IF i > 1 THEN <<"createSlide">> ELSE <<>>)
            \o CreationOpsOfElements(InZOrder(slides[i].elements))
            \o CreationOpsInZOrder(slides, i + 1)

\* C25: for every slide the creation operations are emitted element by
\* element in non-decreasing zIndex order, elements with equal or missing
\* zIndex (read as 0) in document order.
C25_CreationFollowsZOrder ==
    Generated => CreationOps(batch.requests) = CreationOpsInZOrder(deck.slides, 1)

\* A slide whose text box, with zIndex 1, precedes a line and an image that
\* both have zIndex 0: the line is created first, then the image, then the
\* text box.
C25_Witness ==
    /\ Generated
    /\ Len(deck.slides) = 1
    /\ deck.slides[1].elements = <<TextBox(1), StraightLine(0), UrlImage(0)>>
    /\ CreationOps(batch.requests) = <<"createLine", "createImage", "createShape">>

\* On the extraction side the elements of a slide get the zIndex values
\* 0, 1, 2, ... in the order in which they are emitted.
ExtractedZIndexCounts ==
    SlideExtracted =>
        \A k \in 1..Len(slideData.elements) : slideData.elements[k].zIndex = k - 1

(***************************************************************************)
(* A generation run: generatePresentation, executeBatchWithRetryV2 and     *)
(* executePhase2, with the queues of the phase 2 service.  The batch API   *)
(* is the environment: it accepts a list, or rejects it naming the first   *)
(* request it finds invalid, or fails without naming one.  A queue item    *)
(* carries the run that queued it.                                         *)
(***************************************************************************)
maxAttempts == 5

MaxRuns == 2

EmptyQueue ==
    [charts |-> <<>>, speakerNotes |-> <<>>, groups |-> <<>>, images |-> <<>>,
     proactiveImages |-> <<>>, copyGroups |-> <<>>, elementIds |-> {}]

\* A queue that keeps the images deferred by the retry loop.
resetKeepingImages(queue) == [EmptyQueue EXCEPT !.images = queue.images]

\* _phase2Queue.reset()
reset(queue) == EmptyQueue

QueueItem(run, slideIndex, elementIndex) ==
    [run |-> run, slideIndex |-> slideIndex, element |-> elementIndex]

\* What building one element adds to the queues: each entry names the queue
\* and the item.
RECURSIVE queuedByElement(_, _, _, _)
RECURSIVE queuedByChildren(_, _, _, _)
queuedByChildren(children, item, hasSource, k) ==
    IF k > Len(children) THEN <<>>
    ELSE queuedByElement(children[k], item, hasSource, 0)
            \o queuedByChildren(children, item, hasSource, k + 1)

queuedByElement(el, item, hasSource, depth) ==
    IF el.throws THEN <<>>
    ELSE CASE el.type = "image" /\ needsSlidesAppRouting(el) ->
                <<[queue |-> "proactiveImages", item |-> item]>>
           [] el.type = "chart" -> <<[queue |-> "charts", item |-> item]>>
           [] el.type = "copyGroup" /\ hasSource ->
                <<[queue |-> "copyGroups", item |-> item]>>
           [] el.type = "group" -> queuedByChildren(el.elements, item, hasSource, 1)
           [] OTHER -> <<>>

RECURSIVE queuedBySlide(_, _, _, _, _)
queuedBySlide(els, run, slideIndex, hasSource, k) ==
    IF k > Len(els) THEN <<>>
    ELSE queuedByElement(els[k], QueueItem(run, slideIndex, k - 1), hasSource, 0)
            \o queuedBySlide(els, run, slideIndex, hasSource, k + 1)

RECURSIVE queuedByDeck(_, _, _)
queuedByDeck(doc, run, i) ==
    IF i > Len(doc.slides) THEN <<>>
    ELSE queuedBySlide(sortByZIndex(doc.slides[i].elements), run, i - 1,
                       doc.sourcePresentationId, 1)
            \o (IF doc.slides[i].notes
                THEN <<[queue |-> "speakerNotes", item |-> QueueItem(run, i - 1, 0)]>>
                ELSE <<>>)
            \o queuedByDeck(doc, run, i + 1)

ItemsFor(entries, name) ==
    LET chosen == SelectSeq(entries, LAMBDA e : e.queue = name)
    IN  [k \in 1..Len(chosen) |-> chosen[k].item]

\* The keys recordElementId writes for the top-level elements of the deck.
recordedElementIds(doc) ==
    { <<i - 1, k - 1>> : i \in 1..Len(doc.slides), k \in 1..MaxElems + 2 } \cap
    { key \in (0..Len(doc.slides)) \X (0..MaxElems + 2) :
        /\ key[1] + 1 \in 1..Len(doc.slides)
        /\ key[2] + 1 \in 1..Len(doc.slides[key[1] + 1].elements)
        /\ buildElementRequests(
               sortByZIndex(doc.slides[key[1] + 1].elements)[key[2] + 1],
               FirstSlideId, 0).objectId # NoId }

\* The queues after buildAllRequests on queues that were queue before.
queueAfterBuild(queue, doc, run) ==
    LET entries == queuedByDeck(doc, run, 1)
    IN  [queue EXCEPT
            !.charts = @ \o ItemsFor(entries, "charts"),
            !.speakerNotes = @ \o ItemsFor(entries, "speakerNotes"),
            !.proactiveImages = @ \o ItemsFor(entries, "proactiveImages"),
            !.copyGroups = @ \o ItemsFor(entries, "copyGroups"),
            !.elementIds = @ \cup recordedElementIds(doc)]

\* The first request of the list that refers to an object no earlier request
\* creates, 0 when there is none.
FirstDangling(rs) ==
    LET dangling == { i \in 1..Len(rs) :
                        \E id \in ReferredIds(rs[i]) \ {FirstSlideId} :
                            ~CreatedBefore(rs, i, id) }
    IN  IF dangling = {} THEN 0
        ELSE CHOOSE i \in dangling : \A j \in dangling : i <= j

\* The positions the batch API can name as the first invalid request: the
\* first dangling reference, or a createImage before it whose URL it cannot
\* fetch.
RejectablePositions(rs) ==
    { i \in 1..Len(rs) :
        \/ i = FirstDangling(rs)
        \/ (rs[i].op = "createImage"
                /\ (FirstDangling(rs) = 0 \/ i < FirstDangling(rs))) }

\* requests.splice(index, 1)
splice(rs, i) == [k \in 1..(Len(rs) - 1) |-> IF k < i THEN rs[k] ELSE rs[k + 1]]

\* The items executePhase2 executes: nothing unless a chart, a speaker note,
\* a proactive image or a copy group is queued.
executePhase2(queue) ==
    LET needsPhase2 == \/ Len(queue.charts) > 0
                       \/ Len(queue.speakerNotes) > 0
                       \/ Len(queue.proactiveImages) > 0
                       \/ Len(queue.copyGroups) > 0
        itemsOf(name) == { [queue |-> name, item |-> queue[name][k]] :
                             k \in 1..Len(queue[name]) }
    IN  IF ~needsPhase2 THEN {}
        ELSE itemsOf("proactiveImages") \cup itemsOf("images")
                \cup itemsOf("charts") \cup itemsOf("speakerNotes")
                \cup itemsOf("copyGroups")

\* The JSON documents of the runCount.
PlainImage(z) == [UrlImage(z) EXCEPT !.styled = FALSE]

RunSlide(notes, els) == [background |-> FALSE, notes |-> notes, elements |-> els]

RunDeck(hasSource, slides) == [sourcePresentationId |-> hasSource, slides |-> slides]

RunDecks ==
    { RunDeck(FALSE, <<RunSlide(FALSE, <<>>)>>),
      RunDeck(FALSE, <<RunSlide(FALSE, <<TextBox(0), PlainImage(1)>>)>>),
      RunDeck(FALSE, <<RunSlide(TRUE, <<PlainImage(0)>>)>>),
      RunDeck(FALSE, <<RunSlide(FALSE, <<UrlImage(0), TextBox(1)>>)>>),
      RunDeck(FALSE, <<RunSlide(FALSE, <<Group(NoId, 0, <<TextBox(0), PlainImage(0)>>)>>)>>),
      RunDeck(FALSE, <<RunSlide(FALSE, <<GoogleImage(0), PlainImage(1)>>)>>),
      RunDeck(TRUE, <<RunSlide(FALSE, <<El("copyGroup", NoId, 0), El("chart", NoId, 1)>>),
                      RunSlide(FALSE, <<PlainImage(0)>>)>>),
      RunDeck(FALSE, <<RunSlide(FALSE, <<PlainImage(0), PlainImage(1), PlainImage(2),
                                         PlainImage(3), PlainImage(4), TextBox(5)>>)>>) }

NoRunDeck == RunDeck(FALSE, <<>>)

RunInit ==
    /\ runPc = "idle"
    /\ runCount = 0
    /\ runJson = NoRunDeck
    /\ runRequests = <<>>
    /\ attempts = 0
    /\ accepted = FALSE
    /\ phase2Queue = EmptyQueue
    /\ foundQueue = EmptyQueue
    /\ inserted = {}
    /\ removedIds = {}

RunIdle == runPc \in {"idle", "done", "failed"}

\* generatePresentation(jsonString) with a JSON that validateJSON rejects:
\* the catch block returns the error.
RejectJson ==
    /\ RunIdle
    /\ runCount < MaxRuns
    /\ runCount' = runCount + 1
    /\ runPc' = "failed"
    /\ runJson' = NoRunDeck
    /\ runRequests' = <<>>
    /\ attempts' = 0
    /\ accepted' = FALSE
    /\ foundQueue' = phase2Queue
    /\ inserted' = {}
    /\ removedIds' = {}
    /\ UNCHANGED phase2Queue
    /\ UNCHANGED <<textVars, tfVars, colorVars, genVars, inheritVars, slideVars,
                   styleVars, bgVars, lockVars>>

\* generatePresentation(jsonString) up to phase2Service.reset()
ResetRun ==
    /\ RunIdle
    /\ runCount < MaxRuns
    /\ \E d \in RunDecks : runJson' = d
    /\ runCount' = runCount + 1
    /\ runPc' = "reset"
    /\ runRequests' = <<>>
    /\ attempts' = 0
    /\ accepted' = FALSE
    /\ foundQueue' = phase2Queue
    /\ phase2Queue' = reset(phase2Queue)
    /\ inserted' = {}
    /\ removedIds' = {}
    /\ UNCHANGED <<textVars, tfVars, colorVars, genVars, inheritVars, slideVars,
                   styleVars, bgVars, lockVars>>

\* buildAllRequests(json, firstSlideId, presentationId) and the test for an
\* empty request list.
BuildRequests ==
    /\ runPc = "reset"
    /\ runRequests' = buildAllRequests(runJson, FirstSlideId).requests
    /\ phase2Queue' = queueAfterBuild(phase2Queue, runJson, runCount)
    /\ runPc' = IF Len(buildAllRequests(runJson, FirstSlideId).requests) > 0
                THEN "phase1" ELSE "phase2"
    /\ UNCHANGED <<runCount, runJson, attempts, accepted, foundQueue, inserted,
                   removedIds>>
    /\ UNCHANGED <<textVars, tfVars, colorVars, genVars, inheritVars, slideVars,
                   styleVars, bgVars, lockVars>>

\* One iteration of the while loop of executeBatchWithRetryV2.
RetryIteration ==
    /\ runPc = "phase1"
    /\ attempts < maxAttempts
    /\ IF runRequests = <<>>
       THEN \* break
            /\ runPc' = "phase2"
            /\ UNCHANGED <<runRequests, attempts, accepted, phase2Queue, removedIds>>
       ELSE \/ \* the list is accepted
               /\ FirstDangling(runRequests) = 0
               /\ accepted' = TRUE
               /\ runPc' = "phase2"
               /\ UNCHANGED <<runRequests, attempts, phase2Queue, removedIds>>
            \/ \* 'Invalid requests[index]'
               \E index \in RejectablePositions(runRequests) :
                   LET failReq == runRequests[index]
                   IN  /\ attempts' = attempts + 1
                       /\ IF failReq.op = "createImage"
                          THEN /\ phase2Queue' =
                                     [phase2Queue EXCEPT !.images =
                                         @ \o <<[run |-> runCount,
                                                 slideIndex |-> failReq.pageObjectId,
                                                 element |-> failReq.objectId]>>]
                               /\ runRequests' = splice(runRequests, index)
                               /\ removedIds' = removedIds \cup {failReq.objectId}
                               /\ UNCHANGED <<runPc, accepted>>
                          ELSE \* throw e
                               /\ runPc' = "failed"
                               /\ UNCHANGED <<runRequests, accepted, phase2Queue,
                                              removedIds>>
            \/ \* an error that names no request, or one out of range
               /\ attempts' = attempts + 1
               /\ runPc' = "failed"
               /\ UNCHANGED <<runRequests, accepted, phase2Queue, removedIds>>
    /\ UNCHANGED <<runCount, runJson, foundQueue, inserted>>
    /\ UNCHANGED <<textVars, tfVars, colorVars, genVars, inheritVars, slideVars,
                   styleVars, bgVars, lockVars>>

\* The while condition fails and executeBatchWithRetryV2 returns.
RetryExhausted ==
    /\ runPc = "phase1"
    /\ attempts >= maxAttempts
    /\ runPc' = "phase2"
    /\ UNCHANGED <<runCount, runJson, runRequests, attempts, accepted, phase2Queue,
                   foundQueue, inserted, removedIds>>
    /\ UNCHANGED <<textVars, tfVars, colorVars, genVars, inheritVars, slideVars,
                   styleVars, bgVars, lockVars>>

\* slidesApi.executePhase2(presentationId, json.slides.length) and the return
\* of the result.  The documents of the runs hold no connection, so the
\* batch of connection requests before it is empty and is not submitted.
ExecutePhase2 ==
    /\ runPc = "phase2"
    /\ inserted' = executePhase2(phase2Queue)
    /\ runPc' = "done"
    /\ UNCHANGED <<runCount, runJson, runRequests, attempts, accepted, phase2Queue,
                   foundQueue, removedIds>>
    /\ UNCHANGED <<textVars, tfVars, colorVars, genVars, inheritVars, slideVars,
                   styleVars, bgVars, lockVars>>

(***************************************************************************)
(* doPost: concurrent invocations and the script lock.  The lock service   *)
(* gives the lock to one invocation at a time; tryLock returns false when  *)
(* the lock stayed with another invocation for the whole waiting time.     *)
(***************************************************************************)
MaxInvocations == 3

Invocations == 1..MaxInvocations

NoHolder == 0

PostActions == {"import", "generate", "unknown", "nodata"}

LockInit ==
    /\ postPc = [i \in Invocations |-> "start"]
    /\ postAction = [i \in Invocations |-> "none"]
    /\ lockResult = [i \in Invocations |-> "none"]
    /\ lockHolder = NoHolder
    /\ releasedUnheld = {}

AllButLock ==
    <<textVars, tfVars, colorVars, genVars, inheritVars, slideVars, styleVars,
      bgVars, runVars>>

\* doPost(e) is invoked with a request and calls lock.tryLock(30000); the
\* result is not read.
TryLock(i) ==
    /\ postPc[i] = "start"
    /\ \E a \in PostActions : postAction' = [postAction EXCEPT ![i] = a]
    /\ \/ /\ lockHolder = NoHolder
          /\ lockHolder' = i
          /\ lockResult' = [lockResult EXCEPT ![i] = "true"]
       \/ /\ lockHolder # NoHolder
          /\ lockResult' = [lockResult EXCEPT ![i] = "false"]
          /\ UNCHANGED lockHolder
    /\ postPc' = [postPc EXCEPT ![i] = "try"]
    /\ UNCHANGED releasedUnheld
    /\ UNCHANGED AllButLock

\* The try block up to the call of importPresentation or generatePresentation;
\* without post data or with an unknown action it goes to the finally block.
EnterAction(i) ==
    /\ postPc[i] = "try"
    /\ postPc' = [postPc EXCEPT ![i] =
                    IF postAction[i] \in {"import", "generate"}
                    THEN "action" ELSE "finally"]
    /\ UNCHANGED <<postAction, lockResult, lockHolder, releasedUnheld>>
    /\ UNCHANGED AllButLock

\* importPresentation or generatePresentation returns or throws.
FinishAction(i) ==
    /\ postPc[i] = "action"
    /\ postPc' = [postPc EXCEPT ![i] = "finally"]
    /\ UNCHANGED <<postAction, lockResult, lockHolder, releasedUnheld>>
    /\ UNCHANGED AllButLock

\* finally { lock.releaseLock(); }
ReleaseLock(i) ==
    /\ postPc[i] = "finally"
    /\ postPc' = [postPc EXCEPT ![i] = "returned"]
    /\ lockHolder' = IF lockHolder = i THEN NoHolder ELSE lockHolder
    /\ releasedUnheld' = IF lockHolder = i THEN releasedUnheld
                         ELSE releasedUnheld \cup {i}
    /\ UNCHANGED <<postAction, lockResult>>
    /\ UNCHANGED AllButLock

(***************************************************************************)
(* Properties of a generation run.                                         *)
(***************************************************************************)
DeferredImages ==
    { [queue |-> "images", item |-> phase2Queue.images[k]] :
        k \in 1..Len(phase2Queue.images) }

\* C26: every createImage request the retry loop removed and deferred has
\* been inserted by the second phase when the generation run is done,
\* whatever else is queued.
C26_DeferredImagesInserted ==
    runPc = "done" => DeferredImages \subseteq inserted

\* With a chart, a speaker note, a proactive image or a copy group queued,
\* the second phase inserts the deferred images.
DeferredImagesInsertedWithOthers ==
    (runPc = "done" /\ \E e \in inserted : e.queue # "images")
        => DeferredImages \subseteq inserted

DeferredImageInserted ==
    runPc = "done" /\ DeferredImages # {} /\ DeferredImages \subseteq inserted

\* C27: executeBatchWithRetryV2 returns normally only if the list it holds
\* was accepted by the batch API or is empty.
C27_ReturnsOnlyAcceptedOrEmpty ==
    runPc \in {"phase2", "done"} => (accepted \/ runRequests = <<>>)

\* Before the attempts are used up, the loop is left normally only with an
\* accepted or empty list.
ReturnsAcceptedBeforeExhaustion ==
    (runPc \in {"phase2", "done"} /\ attempts < maxAttempts)
        => (accepted \/ runRequests = <<>>)

ReturnedAfterRemoval ==
    runPc = "phase2" /\ accepted /\ removedIds # {}

\* C28: after a rejected createImage request is removed, the list to resubmit
\* holds no request that refers to the object id of the removed image.
C28_NoReferenceToRemovedImage ==
    (runPc = "phase1" /\ attempts < maxAttempts)
        => \A i \in 1..Len(runRequests) : ReferredIds(runRequests[i]) \cap removedIds = {}

\* The removed createImage request itself is no longer in the list.
RemovedImageNotCreated ==
    runPc = "phase1"
        => \A i \in 1..Len(runRequests) :
              ~(IsCreation(runRequests[i]) /\ runRequests[i].objectId \in removedIds)

ImageRemoved ==
    runPc = "phase1" /\ removedIds # {} /\ attempts < maxAttempts

\* C30: a generation run starts building with empty queues and an empty
\* element-id map, and its second phase executes only what the run queued.
C30_RunStartsWithEmptyQueues ==
    /\ runPc = "reset" => phase2Queue = EmptyQueue
    /\ \A e \in inserted : e.item.run = runCount

C30_Witness ==
    /\ runCount = 2
    /\ runPc = "done"
    /\ foundQueue.images # <<>>
    /\ foundQueue.charts # <<>>
    /\ foundQueue.elementIds # {}
    /\ inserted # {}

(***************************************************************************)
(* Properties of doPost and the script lock.                               *)
(***************************************************************************)
InAction == { i \in Invocations : postPc[i] = "action" }

\* C29: at most one doPost invocation executes an import or generate action
\* at any time; an invocation runs its action only while it holds the script
\* lock, and releases only a lock it holds.
C29_ActionsUnderLock ==
    /\ Cardinality(InAction) <= 1
    /\ \A i \in InAction : lockHolder = i
    /\ releasedUnheld = {}

\* An invocation whose tryLock returned true holds the lock during its
\* action, and no two such invocations are in their actions together.
ActionUnderAcquiredLock ==
    /\ \A i \in InAction : lockResult[i] = "true" => lockHolder = i
    /\ Cardinality({ i \in InAction : lockResult[i] = "true" }) <= 1

ActionWithoutLock ==
    \E i \in InAction : lockResult[i] = "false" /\ lockHolder \in InAction \ {i}

(***************************************************************************)
(* Specifications.                                                         *)
(***************************************************************************)
Init ==
    /\ TextInit /\ TransformInit /\ ColorInit /\ BuildInit /\ InheritInit
    /\ SlideInit /\ StyleInit /\ BackgroundInit /\ RunInit
    /\ LockInit

TextNext == ExtractShape \/ LoadJson \/ BuildText

SpecText == Init /\ [][TextNext]_vars

TransformNext ==
    ExtractElement \/ ComposeWithIdentity \/ BuildAndExtract \/ ExtractAndBuild
        \/ ExtractRotation

SpecTransform == Init /\ [][TransformNext]_vars

ColorNext == ExtractPresentation

SpecColor == Init /\ [][ColorNext]_vars

BuildNext == LoadDeck \/ BuildAll

SpecBuild == Init /\ [][BuildNext]_vars

InheritNext == InheritRunStyles

SpecInherit == Init /\ [][InheritNext]_vars

SlideNext == ExtractSlide

SpecSlide == Init /\ [][SlideNext]_vars

StyleNext == ExtractShapeStyle

SpecStyle == Init /\ [][StyleNext]_vars

BackgroundNext == ExtractBackground

SpecBackground == Init /\ [][BackgroundNext]_vars

RunNext ==
    RejectJson \/ ResetRun \/ BuildRequests \/ RetryIteration \/ RetryExhausted
        \/ ExecutePhase2

SpecRun == Init /\ [][RunNext]_vars

LockNext ==
    \E i \in Invocations :
        TryLock(i) \/ EnterAction(i) \/ FinishAction(i) \/ ReleaseLock(i)

SpecLock == Init /\ [][LockNext]_vars

====
